---- MODULE Spec2Model ----
(***************************************************************************)
(* Model of the SRA id resolution engine of sra_id_converter.py:           *)
(* convert_sra_ids (dedup, cache / known-mapping short-circuit, namespace  *)
(* partition, cache merge and save), process_in_batches (batches, worker   *)
(* pool, failure set, retry rounds) and the per-namespace lookup chains    *)
(* process_srp_id / process_erp_id with the functions they call.           *)
(* Functions that run on their own have a specification each:             *)
(* get_study_id (get_study_id.py), the lookup functions called directly,   *)
(* _retry_response under batch_srx_to_gsm (srx_to_gsm_standalone.py) and   *)
(* convert_srp_to_gse (study_id_converter.py).                             *)
(*                                                                         *)
(* Python strings are sequences of one-character strings, so that          *)
(* startswith and the regular expressions are computed, not assumed.       *)
(* An HTTP response is a record [kind, data]; kind "ok" carries the parsed *)
(* payload, every other kind is a transient failure of that one request.   *)
(***************************************************************************)
EXTENDS Integers, Sequences, FiniteSets, TLC

VARIABLES
    KNOWN_MAPPINGS,   \* module global: id -> record (line 42)
    file,             \* the cache file: [state: missing / corrupt / valid / list, data]
    config,           \* the arguments of convert_sra_ids other than sra_ids
    sra_ids,          \* the input list of the call
    run,              \* number of the current call (1 = first call)
    pc,               \* position of the scheduler in convert_sra_ids
    cache,            \* convert_sra_ids: cache (in memory)
    results,          \* convert_sra_ids: results
    srp_ids,          \* convert_sra_ids: srp_ids
    erp_ids,          \* convert_sra_ids: erp_ids
    other_ids,        \* convert_sra_ids: other_ids
    pib,              \* locals of the running process_in_batches call
    workers,          \* futures of the current batch: id -> state and result
    output,           \* value returned by the current call (once done)
    saved,            \* how the cache write of the current call ended
    prev,             \* what the previous call returned and left behind
    dispatched,       \* history: id -> number of process_func calls this call
    allFailed,        \* history: ids whose every resolution had every request fail
    pause,            \* history: a batch of this call has completed; sleeps since
    now,              \* time.time(), in tenths of a second
    last_ebi_request_time,  \* module global (line 49)
    req,              \* pool thread -> its position in ebi_request
    issued,           \* history: the requests.get calls made, in order
    reported,         \* history: the last value passed to progress_callback (0: none yet)
    io,               \* history: how often this call opened the cache file to read, to write
    call,             \* a call of one of the other functions: [fn, arg, pc, route, network]
    lookup,           \* a call of one lookup function: [fn, id, bp, env, pc, out]
    retry,            \* srx_to_gsm_standalone: [pc, batch, i, sleeps, log, process]
    invoked           \* history: how often this call invoked progress_callback

vars == <<KNOWN_MAPPINGS, file, config, sra_ids, run, pc, cache, results, srp_ids,
          erp_ids, other_ids, pib, workers, output, saved, prev, dispatched,
          allFailed, pause, now, last_ebi_request_time, req, issued,
          reported, io, call, lookup, retry, invoked>>

\* The state of the request limiter and of the threads inside it.
limiterVars == <<now, last_ebi_request_time, req, issued>>

\* The state of the functions that are called on their own.
auxVars == <<call, lookup, retry>>

---------------------------------------------------------------------------
(* Strings                                                                 *)

\* Python None (distinct from every string, the empty string included).
None == <<"None">>

Digits == {"0", "1", "2", "3", "4", "5", "6", "7", "8", "9"}

\* Truth value of an Optional[str]: None and '' are false.
Truthy(v) == v # None /\ v # <<>>

\* str.startswith
StartsWith(s, p) == Len(s) >= Len(p) /\ SubSeq(s, 1, Len(p)) = p

SetMin(S) == CHOOSE x \in S : \A y \in S : x <= y

SetMax(S) == CHOOSE x \in S : \A y \in S : x >= y

\* The longest run of digits of s that starts at position i (\d+, greedy);
\* empty when s[i] is no digit.
DigitRun(s, i) ==
    LET ends == {j \in (i - 1)..Len(s) : \A k \in i..j : s[k] \in Digits}
    IN SubSeq(s, i, SetMax(ends))

\* re.search(prefix + r'(\d+)', s).group(1), or None when there is no match:
\* the leftmost position where prefix is followed by at least one digit.
ReSearchDigits(prefix, s) ==
    LET n == Len(prefix)
        starts == {i \in 1..(Len(s) - n) :
                      /\ SubSeq(s, i, i + n - 1) = prefix
                      /\ s[i + n] \in Digits}
    IN IF starts = {} THEN None ELSE DigitRun(s, SetMin(starts) + n)

SRP == <<"S", "R", "P">>
ERP == <<"E", "R", "P">>
PRJEB == <<"P", "R", "J", "E", "B">>
PRJNA == <<"P", "R", "J", "N", "A">>
GSE == <<"G", "S", "E">>
GDS == <<"G", "D", "S">>
EDash == <<"E", "-">>
EMTAB == <<"E", "-", "M", "T", "A", "B", "-">>

---------------------------------------------------------------------------
(* HTTP responses                                                          *)

\* requests.get raised (timeout, connection error).
Timeout == [kind |-> "timeout", data |-> <<>>]

\* A response with an error status (5xx).
Http500 == [kind |-> "http500", data |-> <<>>]

\* Status 200 with a body that does not parse as JSON / XML.
Malformed == [kind |-> "malformed", data |-> <<>>]

\* Status 200 with a well-formed body; d is the parsed payload.
Ok(d) == [kind |-> "ok", data |-> d]

IsTransient(resp) == resp.kind # "ok"

\* 1 for a transient failure, 0 for a well-formed response.
Fail(resp) == IF IsTransient(resp) THEN 1 ELSE 0

\* What one lookup function hands back: its return value, the number of its
\* requests that failed transiently and the number of requests it issued.
Ret(v, f, n) == [ret |-> v, fails |-> f, calls |-> n]

\* The first of the indices idx (where a loop returns), 0 when there is none.
FirstIdx(idx) == IF idx = {} THEN 0 ELSE SetMin(idx)

\* An XML attribute or text that is absent.
Missing == <<"Missing">>

\* An XML element of a parsed document (documents are element sequences in
\* document order); absent attributes and text are None.
Elem(tag, accession, namespace, text) ==
    [tag |-> tag, accession |-> accession, namespace |-> namespace, text |-> text]

\* root.findall(".//TAG")
FindAll(doc, tag) == SelectSeq(doc, LAMBDA e : e.tag = tag)

\* `namespace and "BioProject" in namespace`; namespaces are atomic tokens.
IsBioProjectNamespace(ns) == ns = "BioProject"

---------------------------------------------------------------------------
(* get_bioproject_from_erp and its three network methods                   *)

\* A method's result: whether it returned from the function, and with what.
Returned(v) == [returned |-> TRUE, value |-> v]

Nothing == [returned |-> FALSE, value |-> None]

\* Methods 1 and 3: a JSON list whose first row carries study_accession.
\* resp.data is the list of the rows' study_accession values.
ena_portal_json_method(resp) ==
    IF resp.kind = "ok" /\ Len(resp.data) > 0
       /\ Truthy(resp.data[1]) /\ StartsWith(resp.data[1], PRJEB)
    THEN Returned(resp.data[1])
    ELSE Nothing

\* Method 2: PROJECT accession, then STUDY accession, then the text of an
\* EXTERNAL_ID whose namespace names BioProject (returned as it is).
ena_browser_xml_method(resp) ==
    IF resp.kind # "ok" THEN Nothing
    ELSE LET isPrjeb(e) == Truthy(e.accession) /\ StartsWith(e.accession, PRJEB)
             projects == FindAll(resp.data, "PROJECT")
             studies == FindAll(resp.data, "STUDY")
             ext_ids == FindAll(resp.data, "EXTERNAL_ID")
             p == FirstIdx({i \in 1..Len(projects) : isPrjeb(projects[i])})
             s == FirstIdx({i \in 1..Len(studies) : isPrjeb(studies[i])})
             x == FirstIdx({i \in 1..Len(ext_ids) :
                               IsBioProjectNamespace(ext_ids[i].namespace)})
         IN IF p > 0 THEN Returned(projects[p].accession)
            ELSE IF s > 0 THEN Returned(studies[s].accession)
            ELSE IF x > 0 THEN Returned(ext_ids[x].text)
            ELSE Nothing

\* Variant: no last resort.
derive_prjeb_never(erp_id) == None

\* The last resort of get_bioproject_from_erp: PRJEB + the digits of ERP(\d+).
derive_prjeb(erp_id) ==
    LET match == ReSearchDigits(ERP, erp_id)
    IN IF match = None THEN None ELSE PRJEB \o match

\* Variant: the derived id is preferred to what the third method finds.
get_bioproject_from_erp_derived_early(erp_id, known, env) ==
    LET m1 == ena_portal_json_method(env[1])
        m2 == ena_browser_xml_method(env[2])
        m3 == ena_portal_json_method(env[3])
        fails == Fail(env[1]) + Fail(env[2]) + Fail(env[3])
    IN IF m1.returned THEN Ret(m1.value, Fail(env[1]), 1)
       ELSE IF m2.returned THEN Ret(m2.value, Fail(env[1]) + Fail(env[2]), 2)
       ELSE IF derive_prjeb(erp_id) # None THEN Ret(derive_prjeb(erp_id), fails, 3)
       ELSE IF m3.returned THEN Ret(m3.value, fails, 3)
       ELSE Ret(None, fails, 3)

\* env is the sequence of the responses to the three requests, in call order;
\* a request that is not issued does not consume its response.
get_bioproject_from_erp(erp_id, known, env) ==
    IF erp_id \in DOMAIN known THEN Ret(known[erp_id].bioproject_id, 0, 0)
    ELSE LET m1 == ena_portal_json_method(env[1])
             m2 == ena_browser_xml_method(env[2])
             m3 == ena_portal_json_method(env[3])
             e1 == Fail(env[1])
             e2 == e1 + Fail(env[2])
             e3 == e2 + Fail(env[3])
         IN IF m1.returned THEN Ret(m1.value, e1, 1)
            ELSE IF m2.returned THEN Ret(m2.value, e2, 2)
            ELSE IF m3.returned THEN Ret(m3.value, e3, 3)
            ELSE Ret(derive_prjeb(erp_id), e3, 3)

---------------------------------------------------------------------------
(* get_arrayexpress_from_erp and its seven network methods                 *)

\* Methods 1, 2 and 5: a JSON list of hits / links, each with an accession
\* (target_id) string; the first that starts with "E-" is returned. A null
\* accession raises inside the method's try block and ends the method.
ae_json_list_method(resp) ==
    IF resp.kind # "ok" THEN Nothing
    ELSE LET stop == FirstIdx({i \in 1..Len(resp.data) :
                                  resp.data[i] = None \/ StartsWith(resp.data[i], EDash)})
         IN IF stop > 0 /\ resp.data[stop] # None THEN Returned(resp.data[stop])
            ELSE Nothing

\* Methods 3 and 4: XREF_LINK elements with DB and ID children; resp.data is
\* the list of [db, id] pairs (Missing: no such child, None: child without
\* text). An ArrayExpress link whose ID has no text raises and ends the method.
ae_xref_link_method(resp) ==
    IF resp.kind # "ok" THEN Nothing
    ELSE LET isAe(l) == l.db = "ArrayExpress" /\ l.id # Missing
             stops(l) == isAe(l) /\ (l.id = None \/ StartsWith(l.id, EDash))
             stop == FirstIdx({i \in 1..Len(resp.data) : stops(resp.data[i])})
         IN IF stop > 0 /\ resp.data[stop].id # None THEN Returned(resp.data[stop].id)
            ELSE Nothing

\* Method 6: entries of the EBI search, each with an id (possibly null).
ae_ebi_search_method(resp) ==
    IF resp.kind # "ok" THEN Nothing
    ELSE LET hit == FirstIdx({i \in 1..Len(resp.data) :
                                 Truthy(resp.data[i]) /\ StartsWith(resp.data[i], EDash)})
         IN IF hit > 0 THEN Returned(resp.data[hit]) ELSE Nothing

\* Method 7: re.findall(r'E-MTAB-\d+', response.text)[0]; resp.data is the text.
ae_listing_page_method(resp) ==
    IF resp.kind # "ok" THEN Nothing
    ELSE LET digits == ReSearchDigits(EMTAB, resp.data)
         IN IF digits = None THEN Nothing ELSE Returned(EMTAB \o digits)

\* The k-th method of the chain applied to its response.
ae_method(k, resp) ==
    CASE k \in {1, 2, 5} -> ae_json_list_method(resp)
      [] k \in {3, 4} -> ae_xref_link_method(resp)
      [] k = 6 -> ae_ebi_search_method(resp)
      [] k = 7 -> ae_listing_page_method(resp)

AeMethods == 7

\* Variant: every method is run and the last one that finds an accession wins.
arrayexpress_chain_last_hit(env) ==
    LET hits == {k \in 1..AeMethods : ae_method(k, env[k]).returned}
        fails == Cardinality({k \in 1..AeMethods : IsTransient(env[k])})
    IN IF hits = {} THEN Ret(None, fails, AeMethods)
       ELSE Ret(ae_method(SetMax(hits), env[SetMax(hits)]).value, fails, AeMethods)

\* The seven methods in order (the body of the function's try block): the
\* first method that finds an accession returns it and no later request is
\* issued. env is the sequence of the responses to the seven requests.
arrayexpress_chain(env) ==
    LET hits == {k \in 1..AeMethods : ae_method(k, env[k]).returned}
        last == IF hits = {} THEN AeMethods ELSE SetMin(hits)
        fails == Cardinality({k \in 1..last : IsTransient(env[k])})
    IN IF hits = {} THEN Ret(None, fails, last)
       ELSE Ret(ae_method(last, env[last]).value, fails, last)

\* bp is what the nested call get_bioproject_from_erp(erp_id) handed back,
\* chain what the seven methods hand back when they are run.
get_arrayexpress_from_erp(erp_id, known, bp, chain) ==
    IF erp_id \in DOMAIN known THEN Ret(known[erp_id].geo_id, 0, 0)
    ELSE IF ~Truthy(bp.ret) THEN Ret(None, bp.fails, bp.calls)
    ELSE Ret(chain.ret, bp.fails + chain.fails, bp.calls + chain.calls)

\* The all-empty result.
EmptyResult == [bioproject_id |-> <<>>, geo_id |-> <<>>]

\* What one process_func call hands back: the result record plus the trace
\* facts of the resolution (requests that failed transiently; requests issued).
Resolution(r, f, n) == [result |-> r, fails |-> f, calls |-> n]

\* bp is what get_bioproject_from_erp handed back at line 328, ae what
\* get_arrayexpress_from_erp handed back at line 333.
process_erp_id(erp_id, known, bp, ae) ==
    IF erp_id \in DOMAIN known THEN Resolution(known[erp_id], 0, 0)
    ELSE Resolution([bioproject_id |-> IF Truthy(bp.ret) THEN bp.ret ELSE <<>>,
                     geo_id |-> IF Truthy(ae.ret) THEN ae.ret ELSE <<>>],
                    bp.fails + ae.fails, bp.calls + ae.calls)

---------------------------------------------------------------------------
(* The SRP chain: get_bioproject_from_srp, get_gse_from_srp                *)

\* env is <<the esearch response, the efetch response>>. Every transient
\* failure raises into the function's except clause, which returns None.
get_bioproject_from_srp(srp_id, known, env) ==
    IF srp_id \in DOMAIN known THEN Ret(known[srp_id].bioproject_id, 0, 0)
    ELSE IF IsTransient(env[1]) THEN Ret(None, 1, 1)
    ELSE IF env[1].data = <<>> THEN Ret(None, 0, 1)
    ELSE IF IsTransient(env[2]) THEN Ret(None, 1, 2)
    ELSE LET ext_links == FindAll(env[2].data, "EXTERNAL_ID")
             x == FirstIdx({i \in 1..Len(ext_links) :
                               IsBioProjectNamespace(ext_links[i].namespace)})
         IN IF x > 0 THEN Ret(ext_links[x].text, 0, 2) ELSE Ret(None, 0, 2)

\* `accession and accession.startswith("GSE")`
IsGse(accession) == Truthy(accession) /\ StartsWith(accession, GSE)

\* bp is what the nested call get_bioproject_from_srp(srp_id) handed back.
\* env.search: the responses to the two gds esearch requests; env.summary: the
\* responses to the esummary requests, one per uid in request order (each
\* payload is the accession of result[uid], None when absent); env.fetch: the
\* response to the gds efetch request. A transient failure of any request
\* raises into the except clause, which returns None.
get_gse_from_srp(srp_id, known, bp, env) ==
    IF srp_id \in DOMAIN known THEN Ret(known[srp_id].geo_id, 0, 0)
    ELSE IF ~Truthy(bp.ret) THEN Ret(None, bp.fails, bp.calls)
    ELSE IF IsTransient(env.search[1]) THEN Ret(None, bp.fails + 1, bp.calls + 1)
    ELSE IF env.search[1].data = <<>> /\ IsTransient(env.search[2])
        THEN Ret(None, bp.fails + 1, bp.calls + 2)
    ELSE LET second == env.search[1].data = <<>>
             uids == IF second THEN env.search[2].data ELSE env.search[1].data
             n0 == bp.calls + (IF second THEN 2 ELSE 1)
             stops == {i \in 1..Len(uids) :
                          IsTransient(env.summary[i]) \/ IsGse(env.summary[i].data)}
             stop == IF stops = {} THEN 0 ELSE SetMin(stops)
             accessions == FindAll(env.fetch.data, "Accession")
             a == FirstIdx({i \in 1..Len(accessions) : IsGse(accessions[i].text)})
         IN IF uids = <<>> THEN Ret(None, bp.fails, n0)
            ELSE IF stop > 0 /\ IsTransient(env.summary[stop])
                THEN Ret(None, bp.fails + 1, n0 + stop)
            ELSE IF stop > 0 THEN Ret(env.summary[stop].data, bp.fails, n0 + stop)
            ELSE IF IsTransient(env.fetch)
                THEN Ret(None, bp.fails + 1, n0 + Len(uids) + 1)
            ELSE IF a > 0 THEN Ret(accessions[a].text, bp.fails, n0 + Len(uids) + 1)
            ELSE Ret(None, bp.fails, n0 + Len(uids) + 1)

\* bp is what get_bioproject_from_srp handed back at line 296, gse what
\* get_gse_from_srp handed back at line 301.
process_srp_id(srp_id, bp, gse) ==
    Resolution([bioproject_id |-> IF Truthy(bp.ret) THEN bp.ret ELSE <<>>,
                geo_id |-> IF Truthy(gse.ret) THEN gse.ret ELSE <<>>],
               bp.fails + gse.fails, bp.calls + gse.calls)

---------------------------------------------------------------------------
(* The upstream environment: what the archives may answer                  *)

PRJEB43 == PRJEB \o <<"4", "3">>
PRJNA7 == PRJNA \o <<"7">>
GSE1 == GSE \o <<"1">>
GSE2 == GSE \o <<"2">>
GDS5 == GDS \o <<"5">>
EMTAB1 == EMTAB \o <<"1">>

\* The transient failures of one request.
Transients == {Timeout, Http500, Malformed}

\* ENA portal filereport / study JSON: no row, a PRJEB row, a row that is
\* not a PRJEB accession.
PortalJsonResponses == Transients \cup {Ok(<<>>), Ok(<<PRJEB43>>), Ok(<<ERP>>)}

\* ENA browser XML: no matching element, or a PROJECT element.
BrowserXmlResponses ==
    Transients \cup {Ok(<<>>), Ok(<<Elem("PROJECT", PRJEB43, "None", None)>>)}

EnvBioprojectErp ==
    {<<a, b, c>> : a \in PortalJsonResponses, b \in BrowserXmlResponses,
                   c \in PortalJsonResponses}

\* One transient failure per request of a long chain, each kind in turn.
TransientOf(k) ==
    CASE k % 3 = 1 -> Timeout
      [] k % 3 = 2 -> Http500
      [] k % 3 = 0 -> Malformed

\* The responses to the k-th request of the ArrayExpress chain.
AeResponses(k) ==
    {TransientOf(k)} \cup
    CASE k \in {1, 2, 5, 6} -> {Ok(<<>>), Ok(<<EMTAB1>>)}
      [] k \in {3, 4} -> {Ok(<<>>), Ok(<<[db |-> "ArrayExpress", id |-> EMTAB1]>>)}
      [] k = 7 -> {Ok(<<>>), Ok(EMTAB1)}

EnvArrayExpress ==
    {<<r1, r2, r3, r4, r5, r6, r7>> :
        r1 \in AeResponses(1), r2 \in AeResponses(2), r3 \in AeResponses(3),
        r4 \in AeResponses(4), r5 \in AeResponses(5), r6 \in AeResponses(6),
        r7 \in AeResponses(7)}

\* NCBI esearch: the idlist.
SraSearchResponses == Transients \cup {Ok(<<>>), Ok(<<"uid1">>)}

SraFetchResponses ==
    Transients \cup {Ok(<<>>), Ok(<<Elem("EXTERNAL_ID", None, "BioProject", PRJNA7)>>)}

EnvBioprojectSrp == {<<a, b>> : a \in SraSearchResponses, b \in SraFetchResponses}

\* The k-th gds esearch: the idlist.
GdsSearchResponses(k) ==
    {TransientOf(k), Ok(<<>>), Ok(<<"uid1">>), Ok(<<"uid1", "uid2">>)}

\* The k-th gds esummary: the accession of the record (None: no accession).
GdsSummaryResponses(k) == {TransientOf(k + 2), Ok(None), Ok(GDS5), Ok(GSE1)}

\* gds efetch: the XML of the uids, without or with the series accession.
GdsFetchResponses ==
    {TransientOf(2), Ok(<<>>), Ok(<<Elem("Accession", None, "None", GSE1)>>)}

EnvGse ==
    [search : GdsSearchResponses(1) \X GdsSearchResponses(2),
     summary : GdsSummaryResponses(1) \X GdsSummaryResponses(2),
     fetch : GdsFetchResponses]

\* Every outcome of the seven ArrayExpress methods.
ArrayExpressChains == {arrayexpress_chain(e) : e \in EnvArrayExpress}

\* Every resolution process_srp_id can hand back for srp_id.
SrpResolutions(srp_id, known) ==
    LET bps == {get_bioproject_from_srp(srp_id, known, e) : e \in EnvBioprojectSrp}
        gses == {get_gse_from_srp(srp_id, known, b, e) : b \in bps, e \in EnvGse}
    IN {process_srp_id(srp_id, b, g) : b \in bps, g \in gses}

\* Every resolution process_erp_id can hand back for erp_id.
ErpResolutions(erp_id, known) ==
    LET bps == {get_bioproject_from_erp(erp_id, known, e) : e \in EnvBioprojectErp}
        aes == {get_arrayexpress_from_erp(erp_id, known, b, c) :
                   b \in bps, c \in ArrayExpressChains}
    IN {process_erp_id(erp_id, known, b, a) : b \in bps, a \in aes}

---------------------------------------------------------------------------
(* Dictionaries, lists and sets                                            *)

Range(seq) == {seq[i] : i \in 1..Len(seq)}

EmptyMap == [k \in {} |-> EmptyResult]

\* Variant: the argument replaces the dictionary.
UpdateReplace(d, e) == e

\* dict.update: the entries of e replace and extend those of d.
Update(d, e) ==
    [k \in DOMAIN d \cup DOMAIN e |-> IF k \in DOMAIN e THEN e[k] ELSE d[k]]

\* list(a_set): the elements in the set's iteration order, which the program
\* does not control; any order may come out.
ListOfSet(S) ==
    {l \in [1..Cardinality(S) -> S] : \A i, j \in 1..Cardinality(S) : l[i] = l[j] => i = j}

\* Variant: only a result with both fields counts.
IsSuccessBothFields(result) == Truthy(result.bioproject_id) /\ Truthy(result.geo_id)

\* `result.get('bioproject_id') or result.get('geo_id')`
IsSuccess(result) == Truthy(result.bioproject_id) \/ Truthy(result.geo_id)

\* How a resolution went: every response well-formed, every request failed,
\* or some of each.
Class(r) ==
    IF r.fails = 0 THEN "wellformed"
    ELSE IF r.fails = r.calls THEN "allfail"
    ELSE "mixed"

---------------------------------------------------------------------------
(* Bounds and inputs                                                       *)

SRP1 == SRP \o <<"1">>
ERP9 == ERP \o <<"9">>
ERPX == ERP \o <<"X">>
XYZ1 == <<"X", "Y", "Z", "1">>

\* The accessions callers pass: an SRP id, an ERP id with and without a
\* numeric suffix, an id of an unrecognized namespace.
Ids == {SRP1, ERP9, ERPX, XYZ1}

\* Longest input list.
MaxInput == 2

\* Largest max_retries.
MaxRetries == 2

\* Number of consecutive calls.
MaxRuns == 2

BatchSizes == {1, 2}

WorkerCounts == {1, 2}

Inputs == UNION {[1..n -> Ids] : n \in 0..MaxInput}

EMTAB2 == EMTAB \o <<"2">>

\* The known-mappings table: empty as shipped, or seeded.
KnownChoices ==
    {EmptyMap,
     [k \in {ERP9, XYZ1} |->
        IF k = ERP9 THEN [bioproject_id |-> PRJEB43, geo_id |-> EMTAB2]
        ELSE [bioproject_id |-> PRJNA7, geo_id |-> GSE2]]}

\* A cache file left by earlier runs: an all-empty record and a partial one.
SeededCache ==
    [k \in {ERP9, SRP1} |->
        IF k = ERP9 THEN EmptyResult ELSE [bioproject_id |-> PRJNA7, geo_id |-> <<>>]]

FileOf(state, data) == [state |-> state, data |-> data]

InitialFiles ==
    {FileOf("missing", EmptyMap), FileOf("corrupt", EmptyMap), FileOf("valid", SeededCache)}

\* The keyword arguments of convert_sra_ids: no retries or MaxRetries of
\* them; a pool wider than a batch runs like one as wide as the batch, so
\* those are left out.
Configs ==
    {c \in [batch_size : BatchSizes, max_workers : WorkerCounts,
            max_retries : {0, MaxRetries}, cache_file : BOOLEAN] :
        c.max_workers <= c.batch_size}

\* What the scheduler and the claims see of a resolution: the result record
\* and how the resolution went.
Outcome(r) == [result |-> r.result, class |-> Class(r)]

\* Every outcome the process function of a namespace can produce.
Resolutions(func, sid, known) ==
    {Outcome(r) : r \in IF func = "srp" THEN SrpResolutions(sid, known)
                                       ELSE ErpResolutions(sid, known)}

\* The resolutions per namespace, id and known-mappings table.
ResolutionTable ==
    [func \in {"srp", "erp"}, sid \in Ids, known \in KnownChoices |->
        Resolutions(func, sid, known)]

---------------------------------------------------------------------------
(* The scheduler                                                           *)

NoPib ==
    [func |-> "none", results |-> EmptyMap, failed_ids |-> {}, retry_count |-> 0,
     total_processed |-> 0, batch_failed_ids |-> {}, current_ids |-> <<>>,
     i |-> 0, batch |-> <<>>, pos |-> "idle"]

\* A future: queued, running, or done with the outcome of its resolution.
Future(st, result, class) == [st |-> st, result |-> result, class |-> class]

NoWorkers == [k \in {} |-> Future("pending", EmptyResult, "none")]

\* No batch of the call has completed yet, and nothing was slept.
NoPause == [batch_done |-> FALSE, sleeps |-> <<>>]

\* The clock when the program starts: long after the epoch, so that the
\* first request finds the initial timestamp 0 old enough.
StartTime == 10

\* A thread that is not inside ebi_request, with `left` requests to make.
NoRequest == [pc |-> "idle", wake |-> 0, left |-> 0]

\* The call has not opened the cache file.
NoIo == [reads |-> 0, writes |-> 0]

\* A Python value: its type and, for a str, its characters.
PyStr(s) == [type |-> "str", val |-> s]

PyNone == [type |-> "NoneType", val |-> <<>>]

PyInt == [type |-> "int", val |-> <<>>]

\* No function is being called on its own.
NoCall ==
    [fn |-> "none", arg |-> PyNone, pc |-> "idle", route |-> "none", network |-> 0,
     attempt |-> 0, trace |-> <<>>]

\* srx_to_gsm_standalone.py is not running.
NoRetry ==
    [pc |-> "idle", batch |-> 0, i |-> 0, sleeps |-> <<>>, log |-> <<>>,
     process |-> "idle", max_retries |-> 0, batches |-> 0]

\* No lookup function is being called on its own.
NoLookup ==
    [fn |-> "none", id |-> <<>>, bp |-> Ret(None, 0, 0), env |-> <<>>, pc |-> "idle",
     out |-> Ret(None, 0, 0)]

NoPrev == [output |-> EmptyMap, file |-> FileOf("missing", EmptyMap),
           saved |-> "none", allFailed |-> {}]

Init ==
    /\ KNOWN_MAPPINGS \in KnownChoices
    /\ config \in Configs
    /\ file \in InitialFiles
    /\ config.cache_file = FALSE => file.state = "missing"
    /\ sra_ids \in Inputs
    /\ run = 1
    /\ pc = "start"
    /\ cache = EmptyMap
    /\ results = EmptyMap
    /\ srp_ids = <<>>
    /\ erp_ids = <<>>
    /\ other_ids = <<>>
    /\ pib = NoPib
    /\ workers = NoWorkers
    /\ output = EmptyMap
    /\ saved = "none"
    /\ prev = NoPrev
    /\ dispatched = [id \in Ids |-> 0]
    /\ allFailed = {}
    /\ pause = NoPause
    /\ now = StartTime
    /\ last_ebi_request_time = 0
    /\ req = [t \in Ids |-> NoRequest]
    /\ issued = <<>>
    /\ reported = 0
    /\ invoked = 0
    /\ io = NoIo
    /\ call = NoCall
    /\ lookup = NoLookup
    /\ retry = NoRetry

\* Variant: the cache file is never read.
LoadCacheNothing == EmptyMap

\* json.load of the cache file: a missing or unreadable file leaves {}.
LoadCache == IF config.cache_file /\ file.state = "valid" THEN file.data ELSE EmptyMap

\* Variant: the known mappings are not consulted.
IsKnownNever(id) == FALSE

\* `if sra_id in KNOWN_MAPPINGS:`
IsKnown(id) == id \in DOMAIN KNOWN_MAPPINGS

\* Variant: an all-empty cache record does not count as a hit.
IsCachedNonEmpty(id, loaded) ==
    /\ config.cache_file
    /\ id \in DOMAIN loaded
    /\ (Truthy(loaded[id].bioproject_id) \/ Truthy(loaded[id].geo_id))

\* `elif cache_file and sra_id in cache:`
IsCached(id, loaded) == config.cache_file /\ id \in DOMAIN loaded

\* Variant: the cache is asked before the known mappings.
ShortCircuitCacheFirst(id, loaded) ==
    IF IsCached(id, loaded) THEN loaded[id] ELSE KNOWN_MAPPINGS[id]

\* The record of an id that is known or cached: the if / elif of lines 153-156.
ShortCircuit(id, loaded) ==
    IF IsKnown(id) THEN KNOWN_MAPPINGS[id] ELSE loaded[id]

\* `id.startswith('SRP')`, `id.startswith('ERP')`
IsSrp(id) == StartsWith(id, SRP)

\* Variant: everything that is not an SRP id is handled as an ERP id.
IsErpOrOther(id) == ~StartsWith(id, SRP)

IsErp(id) == StartsWith(id, ERP)

\* Variant: the callback is invoked whatever the count.
ReportsAlways(n) == TRUE

\* `if progress_callback and processed_count > 0:` (line 162) and
\* `if progress_callback and batch_processed > 0:` (line 264), a callback
\* being given.
Reports(n) == n > 0

\* convert_sra_ids up to the namespace partition: dedup, cache load,
\* known-mapping / cache short-circuit, partition by prefix.
Start ==
    /\ pc = "start"
    /\ \E unique_sra_ids \in ListOfSet(Range(sra_ids)) :
         LET loaded == LoadCache
             short == {id \in Range(unique_sra_ids) : IsKnown(id) \/ IsCached(id, loaded)}
             remaining_ids == SelectSeq(unique_sra_ids, LAMBDA id : id \notin short)
             processed_count == Len(unique_sra_ids) - Len(remaining_ids)
         IN /\ cache' = loaded
            /\ reported' = IF Reports(processed_count) THEN processed_count ELSE reported
            /\ invoked' = IF Reports(processed_count) THEN invoked + 1 ELSE invoked
            /\ results' = [id \in short |-> ShortCircuit(id, loaded)]
            /\ srp_ids' = SelectSeq(remaining_ids, IsSrp)
            /\ erp_ids' = SelectSeq(remaining_ids, IsErp)
            /\ other_ids' = SelectSeq(remaining_ids, LAMBDA id : ~(IsSrp(id) \/ IsErp(id)))
    /\ pc' = "srp"
    /\ io' = IF config.cache_file /\ file.state # "missing"
             THEN [io EXCEPT !.reads = @ + 1]
             ELSE io
    /\ UNCHANGED <<KNOWN_MAPPINGS, file, config, sra_ids, run, pib, workers, output,
                   saved, prev, dispatched, allFailed>>
    /\ UNCHANGED pause
    /\ UNCHANGED limiterVars
    /\ UNCHANGED auxVars

\* The locals of process_in_batches at its entry (lines 224-229).
NewPib(func, ids) ==
    [NoPib EXCEPT !.func = func, !.failed_ids = Range(ids), !.pos = "while"]

\* `if srp_ids:` - call process_in_batches with process_srp_id, or go on.
EnterSrp ==
    /\ pc = "srp"
    /\ IF srp_ids # <<>>
       THEN pib' = NewPib("srp", srp_ids) /\ pc' = "srp_batches"
       ELSE pib' = pib /\ pc' = "erp"
    /\ UNCHANGED <<KNOWN_MAPPINGS, file, config, sra_ids, run, cache, results, srp_ids,
                   erp_ids, other_ids, workers, output, saved, prev, dispatched,
                   allFailed>>
    /\ UNCHANGED pause
    /\ UNCHANGED limiterVars
    /\ UNCHANGED <<reported, invoked>>
    /\ UNCHANGED io
    /\ UNCHANGED auxVars

\* `if erp_ids:` - call process_in_batches with process_erp_id, or go on.
EnterErp ==
    /\ pc = "erp"
    /\ IF erp_ids # <<>>
       THEN pib' = NewPib("erp", erp_ids) /\ pc' = "erp_batches"
       ELSE pib' = pib /\ pc' = "save"
    /\ UNCHANGED <<KNOWN_MAPPINGS, file, config, sra_ids, run, cache, results, srp_ids,
                   erp_ids, other_ids, workers, output, saved, prev, dispatched,
                   allFailed>>
    /\ UNCHANGED pause
    /\ UNCHANGED limiterVars
    /\ UNCHANGED <<reported, invoked>>
    /\ UNCHANGED io
    /\ UNCHANGED auxVars

\* The frame of the actions of process_in_batches that touch only its locals.
PibFrame ==
    UNCHANGED <<KNOWN_MAPPINGS, file, config, sra_ids, run, pc, cache, results, srp_ids,
                erp_ids, other_ids, output, saved, prev>>

\* Variant: one round too many.
LoopConditionOneMore(p) == p.failed_ids # {} /\ p.retry_count <= config.max_retries + 1

\* Variant: a sleep after every batch, the last one of the round too.
SleepsAfterBatchAlways(p) == TRUE

\* Variant: no sleep between batches.
SleepsAfterBatchNever(p) == FALSE

\* `if i + batch_size < len(current_ids): time.sleep(delay_between_batches)`
SleepsAfterBatch(p) == p.i + config.batch_size < Len(p.current_ids)

\* `while failed_ids and retry_count <= max_retries:`
LoopCondition(p) == p.failed_ids # {} /\ p.retry_count <= config.max_retries

\* Variant: the initial round sleeps retry_delay too.
SleepsBeforeRoundAlways(p) == TRUE

\* `if retry_count > 0: time.sleep(retry_delay)`
SleepsBeforeRound(p) == p.retry_count > 0

\* One pass of `while failed_ids and retry_count <= max_retries:` up to the
\* batch loop: (a retry round sleeps retry_delay first,) the failure set
\* becomes the round's work list.
RoundStart ==
    /\ pib.pos = "while"
    /\ LoopCondition(pib)
    /\ \E current_ids \in ListOfSet(pib.failed_ids) :
         pib' = [pib EXCEPT !.batch_failed_ids = {}, !.current_ids = current_ids,
                            !.i = 0, !.pos = "for"]
    /\ PibFrame
    /\ UNCHANGED <<workers, dispatched, allFailed>>
    /\ pause' = IF SleepsBeforeRound(pib)
                 THEN [pause EXCEPT !.sleeps = Append(@, "retry_delay")]
                 ELSE pause
    /\ UNCHANGED limiterVars
    /\ UNCHANGED <<reported, invoked>>
    /\ UNCHANGED io
    /\ UNCHANGED auxVars

Min(a, b) == IF a <= b THEN a ELSE b

\* current_ids[i:i+batch_size], submitted to a fresh ThreadPoolExecutor.
SubmitBatch ==
    /\ pib.pos = "for"
    /\ LET batch == SubSeq(pib.current_ids, pib.i + 1,
                           Min(pib.i + config.batch_size, Len(pib.current_ids)))
       IN /\ pib' = [pib EXCEPT !.batch = batch, !.pos = "pool"]
          /\ workers' = [sid \in Range(batch) |-> Future("pending", EmptyResult, "none")]
    /\ PibFrame
    /\ UNCHANGED <<dispatched, allFailed>>
    /\ UNCHANGED pause
    /\ UNCHANGED limiterVars
    /\ UNCHANGED <<reported, invoked>>
    /\ UNCHANGED io
    /\ UNCHANGED auxVars

Running == {sid \in DOMAIN workers : workers[sid].st = "running"}

\* Variant: the pool starts a thread for every queued task.
IdleThreadAlways(running) == TRUE

\* ThreadPoolExecutor(max_workers=max_workers): a queued task is taken up
\* only by one of the max_workers threads that is not busy.
IdleThread(running) == Cardinality(running) < config.max_workers

\* A pool thread takes the oldest queued task and calls process_func(sid).
WorkerStart(sid) ==
    /\ pib.pos = "pool"
    /\ sid \in DOMAIN workers
    /\ workers[sid].st = "pending"
    /\ IdleThread(Running)
    /\ \A k \in 1..Len(pib.batch) :
         workers[pib.batch[k]].st = "pending" =>
            k >= FirstIdx({j \in 1..Len(pib.batch) : pib.batch[j] = sid})
    /\ workers' = [workers EXCEPT ![sid].st = "running"]
    /\ dispatched' = [dispatched EXCEPT ![sid] = @ + 1]
    /\ PibFrame
    /\ UNCHANGED <<pib, allFailed>>
    /\ UNCHANGED pause
    /\ UNCHANGED limiterVars
    /\ UNCHANGED <<reported, invoked>>
    /\ UNCHANGED io
    /\ UNCHANGED auxVars

\* process_func(sid) returns: any resolution the upstream archives allow.
WorkerFinish(sid) ==
    /\ pib.pos = "pool"
    /\ sid \in DOMAIN workers
    /\ workers[sid].st = "running"
    /\ \E r \in ResolutionTable[pib.func, sid, KNOWN_MAPPINGS] :
         /\ workers' = [workers EXCEPT ![sid] = Future("done", r.result, r.class)]
         /\ allFailed' = IF r.class = "allfail" /\ (dispatched[sid] = 1 \/ sid \in allFailed)
                         THEN allFailed \cup {sid}
                         ELSE allFailed \ {sid}
    /\ PibFrame
    /\ UNCHANGED <<pib, dispatched>>
    /\ UNCHANGED pause
    /\ UNCHANGED limiterVars
    /\ UNCHANGED <<reported, invoked>>
    /\ UNCHANGED io
    /\ UNCHANGED auxVars

\* Variant: the scheduler goes on as soon as one future is done.
ExecutorDrainedFirstCompleted(w) == \E sid \in DOMAIN w : w[sid].st = "done"

\* `for future in future_to_id: ... future.result()` has waited for every
\* future and the `with ThreadPoolExecutor(...)` block has shut the pool down.
ExecutorDrained(w) == \A sid \in DOMAIN w : w[sid].st = "done"

\* Variant: one id without a result fails the whole batch.
SucceededAllOrNothing(batch, w) ==
    IF \A sid \in batch : IsSuccess(w[sid].result) THEN batch ELSE {}

\* Lines 247-257: the ids of the batch that go to batch_results; the others
\* (all-empty result, or an exception out of future.result()) go to
\* batch_failed_ids.
Succeeded(batch, w) == {sid \in batch : IsSuccess(w[sid].result)}

\* The rest of the batch loop's body once every future is done: classify the
\* results, results.update, the progress count, (the inter-batch sleep,) and
\* either the next batch or the end of the round.
CollectBatch ==
    /\ pib.pos = "pool"
    /\ ExecutorDrained(workers)
    /\ LET batch == Range(pib.batch)
           ok == Succeeded(batch, workers)
           batch_results == [sid \in ok |-> workers[sid].result]
           batch_failed_ids == pib.batch_failed_ids \cup (batch \ ok)
           batch_processed == Cardinality(batch) - Cardinality(batch_failed_ids \cap batch)
           more == pib.i + config.batch_size < Len(pib.current_ids)
       IN /\ pib' = [pib EXCEPT
                       !.results = Update(@, batch_results),
                       !.batch_failed_ids = batch_failed_ids,
                       !.total_processed = @ + batch_processed,
                       !.batch = <<>>,
                       !.i = IF more THEN @ + config.batch_size ELSE @,
                       !.failed_ids = IF more THEN @ ELSE batch_failed_ids,
                       !.retry_count = IF more THEN @ ELSE @ + 1,
                       !.pos = IF more THEN "for" ELSE "while"]
          /\ reported' = IF Reports(batch_processed)
                          THEN pib.total_processed + batch_processed
                          ELSE reported
          /\ invoked' = IF Reports(batch_processed) THEN invoked + 1 ELSE invoked
    /\ workers' = NoWorkers
    /\ PibFrame
    /\ UNCHANGED <<dispatched, allFailed>>
    /\ pause' = [batch_done |-> TRUE,
                  sleeps |-> IF SleepsAfterBatch(pib) THEN <<"delay_between_batches">> ELSE <<>>]
    /\ UNCHANGED limiterVars
    /\ UNCHANGED io
    /\ UNCHANGED auxVars

\* Variant: every id of the last round gets the empty result.
PibResultEmptiesLastRound(p) ==
    Update(p.results, [sid \in Range(p.current_ids) |-> EmptyResult])

\* Variant: the ids still in the failure set are left out.
PibResultWithoutFailed(p) == p.results

\* What process_in_batches returns: `for sid in failed_ids: results[sid] =
\* {'bioproject_id': '', 'geo_id': ''}`, then `return results`.
PibResult(p) == Update(p.results, [sid \in p.failed_ids |-> EmptyResult])

\* The while loop is over: the ids still in the failure set get the empty
\* result, process_in_batches returns and the caller merges what it got.
PibReturn ==
    /\ pib.pos = "while"
    /\ ~LoopCondition(pib)
    /\ results' = Update(results, PibResult(pib))
    /\ pc' = IF pib.func = "srp" THEN "erp" ELSE "save"
    /\ pib' = NoPib
    /\ UNCHANGED <<KNOWN_MAPPINGS, file, config, sra_ids, run, cache, srp_ids, erp_ids,
                   other_ids, workers, output, saved, prev, dispatched, allFailed>>
    /\ UNCHANGED pause
    /\ UNCHANGED limiterVars
    /\ UNCHANGED <<reported, invoked>>
    /\ UNCHANGED io
    /\ UNCHANGED auxVars

\* Variant: the results dictionary is returned as it is.
ReturnValueResultsOnly(res) == res

\* The value convert_sra_ids returns: one entry per element of sra_ids.
ReturnValue(res) ==
    [id \in Range(sra_ids) |-> IF id \in DOMAIN res THEN res[id] ELSE EmptyResult]

\* Variant: a failed write is not handled.
AfterWriteRaises(how) == IF how \in {"open_failed", "dump_failed"} THEN "raised" ELSE "done"

\* Lines 195-200: whatever open or json.dump raises is logged and dropped, and
\* line 203 is reached either way.
AfterWrite(how) == "done"

\* json.load has returned a list: `cache` is that list from line 145 on.  The
\* file is not touched before line 196, so its state tells what was loaded.
LoadedList == file.state = "list"

\* The end of convert_sra_ids: merge the results into the cache, rewrite the
\* file (the write may fail before or after the file is truncated) and return.
\* `cache.update(results)` stands before the try block: on a list it raises
\* AttributeError out of convert_sra_ids.
Save ==
    /\ pc = "save"
    /\ IF config.cache_file /\ LoadedList
       THEN /\ pc' = "raised"
            /\ UNCHANGED <<cache, saved, file, output, io>>
       ELSE /\ IF config.cache_file
               THEN /\ cache' = Update(cache, results)
                    /\ io' = [io EXCEPT !.writes = @ + 1]
                    /\ \E how \in {"ok", "open_failed", "dump_failed"} :
                         /\ saved' = how
                         /\ file' = CASE how = "ok" -> FileOf("valid", cache')
                                      [] how = "open_failed" -> file
                                      [] how = "dump_failed" -> FileOf("corrupt", EmptyMap)
               ELSE /\ cache' = cache
                    /\ saved' = "none"
                    /\ file' = file
                    /\ io' = io
            /\ output' = ReturnValue(results)
            /\ pc' = AfterWrite(saved')
    /\ UNCHANGED <<KNOWN_MAPPINGS, config, sra_ids, run, results, srp_ids, erp_ids,
                   other_ids, pib, workers, prev, dispatched, allFailed>>
    /\ UNCHANGED pause
    /\ UNCHANGED limiterVars
    /\ UNCHANGED <<reported, invoked>>
    /\ UNCHANGED auxVars

\* The caller runs convert_sra_ids again with the same arguments, against
\* known mappings and a cache file that cover what the call before returned:
\* that call has written the cache file, or it has looked nothing up and
\* left the file as it found it.
NextCall ==
    /\ pc = "done"
    /\ run < MaxRuns
    /\ \/ saved = "ok"
       \/ saved # "dump_failed" /\ \A id \in Ids : dispatched[id] = 0
    /\ run' = run + 1
    /\ prev' = [output |-> output, file |-> file, saved |-> saved, allFailed |-> allFailed]
    /\ pc' = "start"
    /\ cache' = EmptyMap
    /\ results' = EmptyMap
    /\ srp_ids' = <<>>
    /\ erp_ids' = <<>>
    /\ other_ids' = <<>>
    /\ output' = EmptyMap
    /\ saved' = "none"
    /\ dispatched' = [id \in Ids |-> 0]
    /\ allFailed' = {}
    /\ UNCHANGED <<KNOWN_MAPPINGS, file, config, sra_ids, pib, workers>>
    /\ pause' = NoPause
    /\ UNCHANGED limiterVars
    /\ reported' = 0
    /\ invoked' = 0
    /\ io' = NoIo
    /\ UNCHANGED auxVars

Next ==
    \/ Start
    \/ EnterSrp
    \/ EnterErp
    \/ RoundStart
    \/ SubmitBatch
    \/ \E sid \in Ids : WorkerStart(sid)
    \/ \E sid \in Ids : WorkerFinish(sid)
    \/ CollectBatch
    \/ PibReturn
    \/ Save
    \/ NextCall

Spec == Init /\ [][Next]_vars

---------------------------------------------------------------------------
(* Termination of a call: the requests of ncbi_request / ebi_request       *)
(* (lines 79, 106) are made without a timeout.                             *)

\* Two ids, one of each archive, on a pool of one thread.
InitTermination ==
    /\ Init
    /\ sra_ids = <<SRP1, ERPX>>
    /\ config.max_workers = 1

\* `requests.get(url, params=params)` is called with no timeout argument: a
\* server that accepts the connection and then sends nothing keeps the pool
\* thread inside the call for good.
WorkerBlocks(sid) ==
    /\ pib.pos = "pool"
    /\ sid \in DOMAIN workers
    /\ workers[sid].st = "running"
    /\ workers' = [workers EXCEPT ![sid].st = "blocked"]
    /\ PibFrame
    /\ UNCHANGED <<pib, dispatched, allFailed>>
    /\ UNCHANGED pause
    /\ UNCHANGED limiterVars
    /\ UNCHANGED <<reported, invoked>>
    /\ UNCHANGED io
    /\ UNCHANGED auxVars

NextTermination ==
    \/ Next
    \/ \E sid \in Ids : WorkerBlocks(sid)

\* The scheduler thread and the pool threads go on running whenever they
\* can; nothing obliges a server to answer.
SpecTermination == InitTermination /\ [][NextTermination]_vars /\ WF_vars(Next)

---------------------------------------------------------------------------
(* ebi_request (lines 84-109) under two pool threads.  ncbi_request       *)
(* (lines 51-82) has the same shape over last_ncbi_request_time.          *)
(* Time is counted in tenths of a second.                                 *)

\* `min_wait_time = 1.0`
min_wait_time == 10

\* `random.uniform(0.1, 0.3)`
Jitter == 1..3

\* The clock is followed up to this time.
MaxTime == 22

\* Requests one resolution makes one after the other.
MaxRequests == 2

\* A batch of two ERP ids on a pool of two threads, both resolutions running.
LimiterBatch == <<ERP9, ERPX>>

LimiterConfig ==
    [batch_size |-> 2, max_workers |-> 2, max_retries |-> 0, cache_file |-> FALSE]

InitLimiter ==
    /\ KNOWN_MAPPINGS = EmptyMap
    /\ config = LimiterConfig
    /\ file = FileOf("missing", EmptyMap)
    /\ sra_ids = LimiterBatch
    /\ run = 1
    /\ pc = "erp_batches"
    /\ cache = EmptyMap
    /\ results = EmptyMap
    /\ srp_ids = <<>>
    /\ erp_ids = LimiterBatch
    /\ other_ids = <<>>
    /\ pib = [NewPib("erp", LimiterBatch) EXCEPT !.current_ids = LimiterBatch,
                                                 !.batch = LimiterBatch,
                                                 !.pos = "pool"]
    /\ workers = [sid \in Range(LimiterBatch) |-> Future("running", EmptyResult, "none")]
    /\ output = EmptyMap
    /\ saved = "none"
    /\ prev = NoPrev
    /\ dispatched = [id \in Ids |-> IF id \in Range(LimiterBatch) THEN 1 ELSE 0]
    /\ allFailed = {}
    /\ pause = NoPause
    /\ now = StartTime
    /\ last_ebi_request_time = 0
    /\ req = [t \in Ids |-> IF t \in Range(LimiterBatch)
                              THEN [NoRequest EXCEPT !.left = MaxRequests]
                              ELSE NoRequest]
    /\ issued = <<>>
    /\ reported = 0
    /\ invoked = 0
    /\ io = NoIo
    /\ call = NoCall
    /\ lookup = NoLookup
    /\ retry = NoRetry

LimiterFrame ==
    UNCHANGED <<KNOWN_MAPPINGS, file, config, sra_ids, run, pc, cache, results, srp_ids,
                erp_ids, other_ids, pib, workers, output, saved, prev, dispatched,
                allFailed, pause, reported, io, invoked>>

\* Time passes.
Tick ==
    /\ now < MaxTime
    /\ now' = now + 1
    /\ UNCHANGED <<last_ebi_request_time, req, issued>>
    /\ LimiterFrame
    /\ UNCHANGED auxVars

\* Lines 97-103 up to the sleep: read the clock and the shared timestamp,
\* and either go on to the request or start to sleep.
ebi_request_check(t) ==
    /\ t \in Running
    /\ req[t].pc = "idle"
    /\ req[t].left > 0
    /\ LET current_time == now
           time_since_last_request == current_time - last_ebi_request_time
       IN IF time_since_last_request < min_wait_time
          THEN \E j \in Jitter :
                 req' = [req EXCEPT ![t].pc = "sleep",
                                    ![t].wake = now + (min_wait_time
                                                       - time_since_last_request) + j]
          ELSE req' = [req EXCEPT ![t].pc = "get"]
    /\ UNCHANGED <<now, last_ebi_request_time, issued>>
    /\ LimiterFrame
    /\ UNCHANGED auxVars

\* time.sleep(...) returns once the time asked for has passed.
ebi_request_sleep(t) ==
    /\ req[t].pc = "sleep"
    /\ now >= req[t].wake
    /\ req' = [req EXCEPT ![t].pc = "get"]
    /\ UNCHANGED <<now, last_ebi_request_time, issued>>
    /\ LimiterFrame
    /\ UNCHANGED auxVars

\* `response = requests.get(url)`: the request goes out.
ebi_request_get(t) ==
    /\ req[t].pc = "get"
    /\ issued' = Append(issued, [by |-> t, at |-> now])
    /\ req' = [req EXCEPT ![t].pc = "stamp"]
    /\ UNCHANGED <<now, last_ebi_request_time>>
    /\ LimiterFrame
    /\ UNCHANGED auxVars

\* The response is back: `last_ebi_request_time = time.time()`, return.
ebi_request_stamp(t) ==
    /\ req[t].pc = "stamp"
    /\ last_ebi_request_time' = now
    /\ req' = [req EXCEPT ![t].pc = "idle", ![t].left = @ - 1]
    /\ UNCHANGED <<now, issued>>
    /\ LimiterFrame
    /\ UNCHANGED auxVars

NextLimiter ==
    \/ Tick
    \/ \E t \in Ids : ebi_request_check(t)
    \/ \E t \in Ids : ebi_request_sleep(t)
    \/ \E t \in Ids : ebi_request_get(t)
    \/ \E t \in Ids : ebi_request_stamp(t)

SpecLimiter == InitLimiter /\ [][NextLimiter]_vars

---------------------------------------------------------------------------
(* Calls on three ids, for what progress_callback is told.                 *)

\* An input list of three ids of the SRP and ERP namespaces.
ProgressInputs == {<<SRP1, ERP9, ERPX>>}

InitProgress ==
    /\ KNOWN_MAPPINGS \in KnownChoices
    /\ config \in Configs
    /\ file \in InitialFiles
    /\ config.cache_file = FALSE => file.state = "missing"
    /\ sra_ids \in ProgressInputs
    /\ run = 1
    /\ pc = "start"
    /\ cache = EmptyMap
    /\ results = EmptyMap
    /\ srp_ids = <<>>
    /\ erp_ids = <<>>
    /\ other_ids = <<>>
    /\ pib = NoPib
    /\ workers = NoWorkers
    /\ output = EmptyMap
    /\ saved = "none"
    /\ prev = NoPrev
    /\ dispatched = [id \in Ids |-> 0]
    /\ allFailed = {}
    /\ pause = NoPause
    /\ now = StartTime
    /\ last_ebi_request_time = 0
    /\ req = [t \in Ids |-> NoRequest]
    /\ issued = <<>>
    /\ reported = 0
    /\ invoked = 0
    /\ io = NoIo
    /\ call = NoCall
    /\ lookup = NoLookup
    /\ retry = NoRetry

SpecProgress == InitProgress /\ [][Next]_vars

---------------------------------------------------------------------------
(* Calls on one id, over every kind of cache file.                         *)

\* What the cache file may hold besides the files of InitialFiles: JSON that
\* parses but is no object, here the empty list `[]`.
CacheFiles == InitialFiles \cup {FileOf("list", EmptyMap)}

InitCacheFiles ==
    /\ KNOWN_MAPPINGS \in KnownChoices
    /\ config \in Configs
    /\ file \in CacheFiles
    /\ config.cache_file = FALSE => file.state = "missing"
    /\ sra_ids \in [1..1 -> Ids]
    /\ run = 1
    /\ pc = "start"
    /\ cache = EmptyMap
    /\ results = EmptyMap
    /\ srp_ids = <<>>
    /\ erp_ids = <<>>
    /\ other_ids = <<>>
    /\ pib = NoPib
    /\ workers = NoWorkers
    /\ output = EmptyMap
    /\ saved = "none"
    /\ prev = NoPrev
    /\ dispatched = [id \in Ids |-> 0]
    /\ allFailed = {}
    /\ pause = NoPause
    /\ now = StartTime
    /\ last_ebi_request_time = 0
    /\ req = [t \in Ids |-> NoRequest]
    /\ issued = <<>>
    /\ reported = 0
    /\ invoked = 0
    /\ io = NoIo
    /\ call = NoCall
    /\ lookup = NoLookup
    /\ retry = NoRetry

SpecCacheFiles == InitCacheFiles /\ [][Next]_vars

---------------------------------------------------------------------------
(* Functions called on their own: convert_sra_ids is not running.          *)

\* The variables of convert_sra_ids and of the request limiter at rest.
AtRest ==
    /\ KNOWN_MAPPINGS = EmptyMap
    /\ config = LimiterConfig
    /\ file = FileOf("missing", EmptyMap)
    /\ sra_ids = <<>>
    /\ run = 1
    /\ pc = "start"
    /\ cache = EmptyMap
    /\ results = EmptyMap
    /\ srp_ids = <<>>
    /\ erp_ids = <<>>
    /\ other_ids = <<>>
    /\ pib = NoPib
    /\ workers = NoWorkers
    /\ output = EmptyMap
    /\ saved = "none"
    /\ prev = NoPrev
    /\ dispatched = [id \in Ids |-> 0]
    /\ allFailed = {}
    /\ pause = NoPause
    /\ now = StartTime
    /\ last_ebi_request_time = 0
    /\ req = [t \in Ids |-> NoRequest]
    /\ issued = <<>>
    /\ reported = 0
    /\ invoked = 0
    /\ io = NoIo

AtRestFrame ==
    UNCHANGED <<KNOWN_MAPPINGS, file, config, sra_ids, run, pc, cache, results, srp_ids,
                erp_ids, other_ids, pib, workers, output, saved, prev, dispatched,
                allFailed, pause, now, last_ebi_request_time, req, issued, reported, io,
                invoked>>

---------------------------------------------------------------------------
(* get_study_id.py: get_study_id (lines 55-83) and the two lookups         *)

SRX == <<"S", "R", "X">>
ERX == <<"E", "R", "X">>

\* Longest accession string.
MaxAccessionLen == 4

\* The arguments get_study_id is called with: every string of up to
\* MaxAccessionLen of these characters, None and a number.
Accessions ==
    {PyStr(s) : s \in UNION {[1..n -> {"S", "E", "R", "X", "1"}] : n \in 0..MaxAccessionLen}}
        \cup {PyNone, PyInt}

\* As shipped, the table holds one SRX accession.
KNOWN_ACCESSION_TO_STUDY == {SRX \o <<"1">>}

\* max_retries of get_ena_study_id (line 109).
EnaMaxRetries == 3

\* What the ENA browser API answers: a request error (also an error status,
\* through raise_for_status), XML with a STUDY_REF of an ERP or of a PRJEB
\* accession, XML without either.
EnaBrowserResponses == {"error", "erp", "prjeb", "nomatch"}

\* What the ENA portal API answers: a request error, a report of at least
\* two lines, a report of fewer lines.
EnaPortalResponses == {"error", "study", "empty"}

\* Variant: one more attempt after max_retries failures.
EnaRetriesLeftOneMore(attempt) == attempt < EnaMaxRetries

\* `if attempt < max_retries - 1:` (lines 142, 189)
EnaRetriesLeft(attempt) == attempt < EnaMaxRetries - 1

\* Requests get_ncbi_study_id can make: esearch, efetch.
NcbiRequests == 1..2

\* Variant: the first letter decides.
RouteFirstLetter(accession) ==
    IF accession.type # "str" \/ accession.val = <<>> THEN "ValueError"
    ELSE IF accession.val[1] = "E" THEN "get_ena_study_id"
    ELSE IF accession.val[1] = "S" THEN "get_ncbi_study_id"
    ELSE "ValueError"

\* Lines 74-83: what get_study_id does with its argument.
Route(accession) ==
    IF accession.type # "str" THEN "ValueError"
    ELSE IF StartsWith(accession.val, ERX) THEN "get_ena_study_id"
    ELSE IF StartsWith(accession.val, SRX) THEN "get_ncbi_study_id"
    ELSE "ValueError"

InitStudyId ==
    /\ AtRest
    /\ call \in {[NoCall EXCEPT !.fn = "get_study_id", !.arg = a, !.pc = "call"] :
                    a \in Accessions}
    /\ lookup = NoLookup
    /\ retry = NoRetry

\* get_study_id up to its raise or its call of a lookup.
get_study_id ==
    /\ call.fn = "get_study_id"
    /\ call.pc = "call"
    /\ call' = [call EXCEPT !.route = Route(call.arg),
                            !.pc = IF Route(call.arg) = "ValueError"
                                   THEN "raised" ELSE Route(call.arg)]
    /\ AtRestFrame
    /\ UNCHANGED <<lookup, retry>>

\* One request of a loop of get_ena_study_id, with its answer.
EnaRequest(endpoint, resp) ==
    [call EXCEPT !.network = @ + 1,
                 !.trace = Append(@, [endpoint |-> endpoint, resp |-> resp])]

\* get_ena_study_id, lines 109-148: one pass of the browser loop. A study
\* reference is returned; a document without one and the last request
\* error lead to the portal loop; an earlier request error is retried.
get_ena_study_id_browser ==
    /\ call.pc = "get_ena_study_id"
    /\ \E resp \in EnaBrowserResponses :
         call' = CASE resp \in {"erp", "prjeb"} ->
                        [EnaRequest("browser", resp) EXCEPT !.pc = "returned"]
                   [] resp = "nomatch" ->
                        [EnaRequest("browser", resp) EXCEPT !.pc = "portal", !.attempt = 0]
                   [] resp = "error" ->
                        IF EnaRetriesLeft(call.attempt)
                        THEN [EnaRequest("browser", resp) EXCEPT !.attempt = @ + 1]
                        ELSE [EnaRequest("browser", resp) EXCEPT !.pc = "portal",
                                                                 !.attempt = 0]
    /\ AtRestFrame
    /\ UNCHANGED <<lookup, retry>>

\* get_ena_study_id, lines 152-194: one pass of the portal loop. A report
\* with a second line returns; a shorter report and the last request error
\* raise ValueError; an earlier request error is retried.
get_ena_study_id_portal ==
    /\ call.pc = "portal"
    /\ \E resp \in EnaPortalResponses :
         call' = CASE resp = "study" ->
                        [EnaRequest("portal", resp) EXCEPT !.pc = "returned"]
                   [] resp = "empty" ->
                        [EnaRequest("portal", resp) EXCEPT !.pc = "raised"]
                   [] resp = "error" ->
                        IF EnaRetriesLeft(call.attempt)
                        THEN [EnaRequest("portal", resp) EXCEPT !.attempt = @ + 1]
                        ELSE [EnaRequest("portal", resp) EXCEPT !.pc = "raised"]
    /\ AtRestFrame
    /\ UNCHANGED <<lookup, retry>>

\* get_ncbi_study_id (lines 196-252): a known accession is answered from the
\* table; otherwise it returns or raises ValueError after its requests.
get_ncbi_study_id ==
    /\ call.pc = "get_ncbi_study_id"
    /\ IF call.arg.val \in KNOWN_ACCESSION_TO_STUDY
       THEN call' = [call EXCEPT !.pc = "returned"]
       ELSE \E n \in NcbiRequests, how \in {"returned", "raised"} :
              call' = [call EXCEPT !.network = n, !.pc = how]
    /\ AtRestFrame
    /\ UNCHANGED <<lookup, retry>>

NextStudyId ==
    \/ get_study_id
    \/ get_ena_study_id_browser
    \/ get_ena_study_id_portal
    \/ get_ncbi_study_id

SpecStudyId == InitStudyId /\ [][NextStudyId]_vars

---------------------------------------------------------------------------
(* The lookup functions of sra_id_converter.py, each called on its own     *)
(* with every answer of the archives.                                      *)

\* What the nested get_bioproject_from_erp / get_bioproject_from_srp call
\* of a lookup can hand back.
ErpBioprojects(erp_id) ==
    {get_bioproject_from_erp(erp_id, EmptyMap, e) : e \in EnvBioprojectErp}

SrpBioprojects(srp_id) ==
    {get_bioproject_from_srp(srp_id, EmptyMap, e) : e \in EnvBioprojectSrp}

LookupOf(fn, id, bp, env) == [NoLookup EXCEPT !.fn = fn, !.id = id, !.bp = bp,
                                              !.env = env, !.pc = "call"]

\* ENA browser XML as get_bioproject_from_erp can meet it: also a STUDY
\* element, and an EXTERNAL_ID of the BioProject namespace whose text is
\* another archive's id or is absent.
BrowserXmlDocuments ==
    BrowserXmlResponses
    \cup {Ok(<<Elem("STUDY", PRJEB43, "None", None)>>),
          Ok(<<Elem("EXTERNAL_ID", None, "BioProject", PRJNA7)>>),
          Ok(<<Elem("EXTERNAL_ID", None, "BioProject", None)>>)}

\* The calls of each lookup function: the id and the answers it will get.
BioprojectFromErpCalls ==
    {LookupOf("get_bioproject_from_erp", id, Ret(None, 0, 0), e) :
        id \in {ERP9, ERPX},
        e \in PortalJsonResponses \X BrowserXmlDocuments \X PortalJsonResponses}

ArrayexpressFromErpCalls ==
    {LookupOf("get_arrayexpress_from_erp", ERP9, b, e) :
        b \in ErpBioprojects(ERP9), e \in EnvArrayExpress}

BioprojectFromSrpCalls ==
    {LookupOf("get_bioproject_from_srp", SRP1, Ret(None, 0, 0), e) :
        e \in EnvBioprojectSrp}

GseFromSrpCalls ==
    {LookupOf("get_gse_from_srp", SRP1, b, e) :
        b \in SrpBioprojects(SRP1), e \in EnvGse}

InitLookup ==
    /\ AtRest
    /\ call = NoCall
    /\ \/ lookup \in BioprojectFromErpCalls
       \/ lookup \in ArrayexpressFromErpCalls
       \/ lookup \in BioprojectFromSrpCalls
       \/ lookup \in GseFromSrpCalls
    /\ retry = NoRetry

LookupReturns(out) ==
    /\ lookup.pc = "call"
    /\ lookup' = [lookup EXCEPT !.out = out, !.pc = "done"]
    /\ AtRestFrame
    /\ UNCHANGED <<call, retry>>

CallBioprojectFromErp ==
    /\ lookup.fn = "get_bioproject_from_erp"
    /\ LookupReturns(get_bioproject_from_erp(lookup.id, KNOWN_MAPPINGS, lookup.env))

CallArrayexpressFromErp ==
    /\ lookup.fn = "get_arrayexpress_from_erp"
    /\ LookupReturns(get_arrayexpress_from_erp(lookup.id, KNOWN_MAPPINGS, lookup.bp,
                                                arrayexpress_chain(lookup.env)))

CallBioprojectFromSrp ==
    /\ lookup.fn = "get_bioproject_from_srp"
    /\ LookupReturns(get_bioproject_from_srp(lookup.id, KNOWN_MAPPINGS, lookup.env))

CallGseFromSrp ==
    /\ lookup.fn = "get_gse_from_srp"
    /\ LookupReturns(get_gse_from_srp(lookup.id, KNOWN_MAPPINGS, lookup.bp, lookup.env))

\* The requests a lookup issues after its nested bioproject call, in the order
\* of the source, when no method returns: the three methods of
\* get_bioproject_from_erp, the seven of get_arrayexpress_from_erp, and for
\* get_gse_from_srp the searches, one summary per candidate uid and the
\* full-record fetch.
MethodChain(l) ==
    IF l.fn = "get_gse_from_srp"
    THEN LET second == l.env.search[1].data = <<>>
             uids == IF second THEN l.env.search[2].data ELSE l.env.search[1].data
         IN (IF second THEN l.env.search ELSE <<l.env.search[1]>>)
            \o SubSeq(l.env.summary, 1, Len(uids)) \o <<l.env.fetch>>
    ELSE l.env

\* The position in MethodChain of the first lookup method (the gds searches
\* of get_gse_from_srp only collect the candidates).
FirstMethod(l) ==
    IF l.fn = "get_gse_from_srp"
    THEN IF l.env.search[1].data = <<>> THEN 3 ELSE 2
    ELSE 1

\* How many requests of MethodChain the finished lookup has issued.
Issued(l) == l.out.calls - l.bp.calls

NextLookup ==
    \/ CallBioprojectFromErp
    \/ CallArrayexpressFromErp
    \/ CallBioprojectFromSrp
    \/ CallGseFromSrp

SpecLookup == InitLookup /\ [][NextLookup]_vars

---------------------------------------------------------------------------
(* srx_to_gsm_standalone.py: batch_srx_to_gsm (lines 37-93), the esummary  *)
(* request of srx_to_gsm (lines 186-202) and _retry_response (lines 22-34) *)

\* max_retries of _retry_response ranges over 1..MaxAttempts.
MaxAttempts == 3

\* batch_srx_to_gsm has 1..MaxBatches batches to process.
MaxBatches == 2

RECURSIVE Pow2(_)
\* 2 ** i
Pow2(i) == IF i = 0 THEN 1 ELSE 2 * Pow2(i - 1)

\* What a response is to the code that reads it: "valid" parses, has the
\* key asked for and no "error"; "error" parses and has "error" (rate limit);
\* "unparsable" makes request.json() raise JSONDecodeError; "nokey" parses
\* and has neither the key nor "error".
RetryResponses == {"valid", "error", "unparsable", "nokey"}

InitRetry ==
    /\ AtRest
    /\ call = NoCall
    /\ lookup = NoLookup
    /\ retry \in {[pc |-> "srx_to_gsm", batch |-> 1, i |-> 0, sleeps |-> <<>>, log |-> <<>>,
                   process |-> "running", max_retries |-> m, batches |-> b] :
                     m \in 1..MaxAttempts, b \in 1..MaxBatches}

RetryFrame ==
    /\ AtRestFrame
    /\ UNCHANGED <<call, lookup>>

\* srx_to_gsm has its response: batch_srx_to_gsm goes on to the next batch,
\* or returns after the last one.
BatchDone(r) ==
    IF r.batch < r.batches
    THEN [r EXCEPT !.pc = "srx_to_gsm", !.batch = r.batch + 1]
    ELSE [r EXCEPT !.pc = "done"]

\* Lines 193-202: the esummary request of the batch; an unparsable or
\* rate-limited response is handed to _retry_response.
srx_to_gsm ==
    /\ retry.pc = "srx_to_gsm"
    /\ \E resp \in {"valid", "error", "unparsable"} :
          retry' = IF resp = "valid" THEN BatchDone(retry)
                   ELSE [retry EXCEPT !.pc = "for", !.i = 0, !.sleeps = <<>>,
                                      !.log = <<>>]
    /\ RetryFrame

\* Lines 24-25: the loop has an index left and sleeps 2 ** i.
retry_response_sleep ==
    /\ retry.pc = "for"
    /\ retry.i < retry.max_retries
    /\ retry' = [retry EXCEPT !.pc = "get",
                               !.sleeps = Append(retry.sleeps, Pow2(retry.i))]
    /\ RetryFrame

\* Lines 26-32: the request and the test of its response.
retry_response_get ==
    /\ retry.pc = "get"
    /\ \E resp \in RetryResponses :
          LET logged == [retry EXCEPT !.log = Append(retry.log, resp)]
          IN retry' = IF resp = "valid" THEN BatchDone(logged)
                      ELSE [logged EXCEPT !.pc = "for", !.i = retry.i + 1]
    /\ RetryFrame

\* Lines 33-34: the loop is exhausted; sys.exit(1) raises SystemExit, which
\* no caller catches, and the interpreter exits.
retry_response_exit ==
    /\ retry.pc = "for"
    /\ retry.i = retry.max_retries
    /\ retry' = [retry EXCEPT !.pc = "exit", !.process = "exited"]
    /\ RetryFrame

NextRetry ==
    \/ srx_to_gsm
    \/ retry_response_sleep
    \/ retry_response_get
    \/ retry_response_exit

SpecRetry == InitRetry /\ [][NextRetry]_vars

---------------------------------------------------------------------------
(* srx_to_gsm_standalone.py: batch_srx_to_gsm (lines 37-93) from its       *)
(* argument to the table it returns                                        *)

\* Longest srx_list.
MaxSrx == 3

SrxIds == {"SRX1", "SRX2", "SRX3"}

\* The GSM accession GEO holds for an SRX accession.
GsmOf(srx) == <<"GSM", srx>>

\* What srx_to_gsm(batch) can hand back: None, or a table with one row for
\* each SRX of the batch that has a match (possibly none); the table is a
\* function from the matched SRX accessions to their aliases.
NoTable == [none |-> TRUE, rows |-> <<>>]

TableOf(matches) == [none |-> FALSE, rows |-> [srx \in matches |-> GsmOf(srx)]]

BatchResults(batch) == {NoTable} \cup {TableOf(m) : m \in SUBSET Range(batch)}

\* dict(zip(combined_df["experiment_accession"], combined_df["experiment_alias"]))
\* over the concatenated tables.
RECURSIVE result_dict(_)
result_dict(dfs) ==
    IF dfs = <<>> THEN <<>>
    ELSE LET rest == result_dict(Tail(dfs))
             first == Head(dfs).rows
         IN [srx \in DOMAIN first \cup DOMAIN rest |->
                IF srx \in DOMAIN rest THEN rest[srx] ELSE first[srx]]

\* Variant: the concatenated batch tables are returned as they are.
final_df_matches_only(srx_list, dict) ==
    LET matched == SelectSeq(srx_list, LAMBDA srx : srx \in DOMAIN dict)
    IN [k \in 1..Len(matched) |->
           [experiment_accession |-> matched[k], experiment_alias |-> dict[matched[k]]]]

\* Lines 87-90: one row per element of srx_list, result_dict.get(srx, None).
final_df(srx_list, dict) ==
    [k \in 1..Len(srx_list) |->
        [experiment_accession |-> srx_list[k],
         experiment_alias |-> IF srx_list[k] \in DOMAIN dict THEN dict[srx_list[k]]
                              ELSE None]]

InitSrxBatch ==
    /\ AtRest
    /\ lookup = NoLookup
    /\ retry = NoRetry
    /\ call \in {[fn |-> "batch_srx_to_gsm", pc |-> "call", srx_list |-> l,
                   batch_size |-> b, unique_srx |-> <<>>, i |-> 0, queried |-> <<>>,
                   matched |-> {}, results_dfs |-> <<>>, table |-> <<>>] :
                     l \in UNION {[1..n -> SrxIds] : n \in 0..MaxSrx}, b \in 1..2}

SrxBatchFrame ==
    /\ AtRestFrame
    /\ UNCHANGED <<lookup, retry>>

\* Line 54: unique_srx = list(set(srx_list)), in whatever order the set gives.
batch_srx_to_gsm_dedup ==
    /\ call.fn = "batch_srx_to_gsm"
    /\ call.pc = "call"
    /\ \E unique_srx \in ListOfSet(Range(call.srx_list)) :
          call' = [call EXCEPT !.unique_srx = unique_srx, !.pc = "for"]
    /\ SrxBatchFrame

\* Lines 60-75: one batch: srx_to_gsm(batch) returns a table or None, or
\* _retry_response inside it ends the program (sys.exit).
batch_srx_to_gsm_batch ==
    /\ call.fn = "batch_srx_to_gsm"
    /\ call.pc = "for"
    /\ call.i < Len(call.unique_srx)
    /\ LET batch == SubSeq(call.unique_srx, call.i + 1,
                           Min(call.i + call.batch_size, Len(call.unique_srx)))
           asked == [call EXCEPT !.queried = Append(@, batch)]
       IN \/ \E batch_result \in BatchResults(batch) :
               call' = IF ~batch_result.none /\ DOMAIN batch_result.rows # {}
                       THEN [asked EXCEPT !.results_dfs = Append(@, batch_result),
                                          !.matched = @ \cup DOMAIN batch_result.rows,
                                          !.i = @ + call.batch_size]
                       ELSE [asked EXCEPT !.i = @ + call.batch_size]
          \/ call' = [asked EXCEPT !.pc = "exit"]
    /\ SrxBatchFrame

\* Lines 77-93: no table at all gives the empty table; otherwise the rows
\* of the input list are made from the concatenated tables.
batch_srx_to_gsm_return ==
    /\ call.fn = "batch_srx_to_gsm"
    /\ call.pc = "for"
    /\ call.i >= Len(call.unique_srx)
    /\ call' = [call EXCEPT
                  !.pc = "returned",
                  !.table = IF call.results_dfs = <<>> THEN <<>>
                            ELSE final_df(call.srx_list, result_dict(call.results_dfs))]
    /\ SrxBatchFrame

NextSrxBatch ==
    \/ batch_srx_to_gsm_dedup
    \/ batch_srx_to_gsm_batch
    \/ batch_srx_to_gsm_return

SpecSrxBatch == InitSrxBatch /\ [][NextSrxBatch]_vars

---------------------------------------------------------------------------
(* study_id_converter.py: convert_srp_to_gse (lines 49-99) over            *)
(* fetch_gse_for_srp_batch (lines 101-239) and                             *)
(* fetch_gse_for_srp_individual (lines 241-376)                            *)

\* Longest srp_ids.
MaxSrp == 3

StudyIds == {"SRP100", "SRP200", "SRP300"}

GseAccessions == {"GSE10"}

\* Variant: a batch lookup starts from an empty dictionary.
DefaultResultsEmpty(batch) == [srp_id \in {} |-> srp_id]

\* Line 112: results = {srp_id: srp_id for srp_id in srp_ids}.
DefaultResults(batch) == [srp_id \in Range(batch) |-> srp_id]

\* What fetch_gse_for_srp_batch returns when it returns: the default
\* dictionary with the accession written over the entry of every id a GSE
\* was found for (lines 222, 232).
BatchLookups(batch) ==
    {Update(DefaultResults(batch), found) :
        found \in UNION {[S -> GseAccessions] : S \in SUBSET Range(batch)}}

\* How fetch_gse_for_srp_individual ends: with an accession (lines 325, 334,
\* 370), with nothing found (lines 274, 296, 303, 372) or in its handler
\* (lines 374-376); the last two return the id itself.
IndividualLookups == {"found", "none", "error"}

individual_result(srp_id, how, accession) == IF how = "found" THEN accession ELSE srp_id

\* srp_ids[i:i+batch_size]
SrpBatch(c) == SubSeq(c.srp_ids, c.i + 1, Min(c.i + c.batch_size, Len(c.srp_ids)))

InitSrpToGse ==
    /\ AtRest
    /\ lookup = NoLookup
    /\ retry = NoRetry
    /\ call \in {[fn |-> "convert_srp_to_gse", pc |-> "for", srp_ids |-> l,
                   batch_size |-> b, i |-> 0, j |-> 0, results |-> <<>>,
                   batches |-> <<>>, raised |-> {}, individual |-> {},
                   last |-> [srp_id \in Range(l) |-> "unasked"]] :
                     l \in UNION {[1..n -> StudyIds] : n \in 0..MaxSrp}, b \in 1..2}

SrpToGseFrame ==
    /\ AtRestFrame
    /\ UNCHANGED <<lookup, retry>>

\* Lines 70-72: the batched lookup returns and its entries are merged.
convert_srp_to_gse_batch ==
    /\ call.fn = "convert_srp_to_gse"
    /\ call.pc = "for"
    /\ call.i < Len(call.srp_ids)
    /\ \E batch_results \in BatchLookups(SrpBatch(call)) :
          call' = [call EXCEPT
                     !.results = Update(@, batch_results),
                     !.batches = Append(@, call.i),
                     !.last = [srp_id \in DOMAIN @ |->
                                  IF srp_id \notin Range(SrpBatch(call)) THEN @[srp_id]
                                  ELSE IF srp_id \in DOMAIN batch_results
                                          /\ batch_results[srp_id] # srp_id
                                       THEN "found" ELSE "none"],
                     !.i = @ + call.batch_size]
    /\ SrpToGseFrame

\* Lines 70-71, 78-82: the batched lookup raises (lines 237-239 re-raise
\* whatever went wrong) and the loop over the ids of the batch begins.
convert_srp_to_gse_batch_raises ==
    /\ call.fn = "convert_srp_to_gse"
    /\ call.pc = "for"
    /\ call.i < Len(call.srp_ids)
    /\ call' = [call EXCEPT !.pc = "individual", !.j = 1,
                            !.batches = Append(@, call.i),
                            !.raised = @ \cup {call.i}]
    /\ SrpToGseFrame

\* Lines 82-91: one id of the batch is looked up on its own; after the
\* last one the outer loop goes on.
convert_srp_to_gse_individual ==
    /\ call.fn = "convert_srp_to_gse"
    /\ call.pc = "individual"
    /\ LET batch == SrpBatch(call)
           srp_id == batch[call.j]
       IN \E how \in IndividualLookups, accession \in GseAccessions :
             call' = [call EXCEPT
                        !.results = Update(@, [k \in {srp_id} |->
                                                  individual_result(srp_id, how, accession)]),
                        !.individual = @ \cup {<<call.i, srp_id>>},
                        !.last = [@ EXCEPT ![srp_id] = how],
                        !.j = IF call.j < Len(batch) THEN @ + 1 ELSE 0,
                        !.pc = IF call.j < Len(batch) THEN "individual" ELSE "for",
                        !.i = IF call.j < Len(batch) THEN @ ELSE @ + call.batch_size]
    /\ SrpToGseFrame

\* Line 99: return results.
convert_srp_to_gse_return ==
    /\ call.fn = "convert_srp_to_gse"
    /\ call.pc = "for"
    /\ call.i >= Len(call.srp_ids)
    /\ call' = [call EXCEPT !.pc = "returned"]
    /\ SrpToGseFrame

NextSrpToGse ==
    \/ convert_srp_to_gse_batch
    \/ convert_srp_to_gse_batch_raises
    \/ convert_srp_to_gse_individual
    \/ convert_srp_to_gse_return

SpecSrpToGse == InitSrpToGse /\ [][NextSrpToGse]_vars

---------------------------------------------------------------------------
(* Properties                                                              *)

PRJEB9 == PRJEB \o <<"9">>

Unrecognized(id) == ~(StartsWith(id, SRP) \/ StartsWith(id, ERP))

\* The step in which the batch loop classifies the futures of a batch.
Classifies == pib.pos = "pool" /\ pib'.pos # "pool"

\* C1: the mapping convert_sra_ids returns has exactly the input ids as its
\* keys: every element of the input list (duplicated, unresolved or of an
\* unrecognized prefix) has its entry and no other key appears.
C1_OneEntryPerInput == pc = "done" => DOMAIN output = Range(sra_ids)

\* A duplicated id that was looked up and stayed unresolved has its entry.
C1_Witness ==
    /\ pc = "done"
    /\ Len(sra_ids) = 2
    /\ sra_ids[1] = sra_ids[2]
    /\ dispatched[sra_ids[1]] > 0
    /\ output[sra_ids[1]] = EmptyResult

\* C2: between the cache load and the cache merge of a call, an id of the
\* loaded cache has been dispatched to no process function, and an input id
\* among them holds its cached record as its result (the known mapping when
\* it has one), whatever the cached record is.
C2_CacheHitNoCalls ==
    \A id \in Ids :
        (pc \notin {"start", "done"} /\ config.cache_file /\ id \in DOMAIN cache) =>
            /\ dispatched[id] = 0
            /\ id \in Range(sra_ids) =>
                 /\ id \in DOMAIN results
                 /\ id \notin DOMAIN KNOWN_MAPPINGS => results[id] = cache[id]

\* A later run finds the all-empty record the run before has cached.
C2_Witness ==
    /\ run = 2
    /\ pc = "save"
    /\ ERPX \in Range(sra_ids)
    /\ ERPX \in DOMAIN cache
    /\ cache[ERPX] = EmptyResult
    /\ dispatched[ERPX] = 0
    /\ results[ERPX] = EmptyResult

\* C3: an id of the known-mappings table is never dispatched, and the call
\* returns the table's record for it, also when the cache holds another
\* record for the id.
C3_KnownMappingWins ==
    \A id \in DOMAIN KNOWN_MAPPINGS :
        /\ dispatched[id] = 0
        /\ (pc = "done" /\ id \in Range(sra_ids)) => output[id] = KNOWN_MAPPINGS[id]

\* The cache file holds another record for a known id (the write did not
\* replace the file), and the table's record is returned.
C3_Witness ==
    /\ pc = "done"
    /\ ERP9 \in Range(sra_ids)
    /\ ERP9 \in DOMAIN KNOWN_MAPPINGS
    /\ config.cache_file
    /\ file.state = "valid"
    /\ ERP9 \in DOMAIN file.data
    /\ file.data[ERP9] # KNOWN_MAPPINGS[ERP9]
    /\ output[ERP9] = KNOWN_MAPPINGS[ERP9]

\* C4: when process_in_batches returns, every id it was passed has an entry
\* in what it returns (here: in the caller's results after the merge), and
\* the ids still in the failure set have the all-empty record.
C4_NoIdDropped ==
    [][(pib.pos = "while" /\ pib'.pos = "idle") =>
          \A id \in Range(IF pib.func = "srp" THEN srp_ids ELSE erp_ids) :
              /\ id \in DOMAIN results'
              /\ id \in pib.failed_ids => results'[id] = EmptyResult]_vars

\* An id that failed every round of a call with retries has the empty record.
C4_Witness ==
    /\ pc = "save"
    /\ config.max_retries = MaxRetries
    /\ ERPX \in Range(erp_ids)
    /\ dispatched[ERPX] = MaxRetries + 1
    /\ results[ERPX] = EmptyResult

C6_UnrecognizedPrefix ==
    \A id \in Ids :
        Unrecognized(id) =>
            /\ dispatched[id] = 0
            /\ id \notin pib.failed_ids \cup pib.batch_failed_ids \cup Range(pib.current_ids)
            /\ (/\ pc = "done"
                /\ id \in Range(sra_ids)
                /\ id \notin DOMAIN KNOWN_MAPPINGS
                /\ id \notin DOMAIN cache) => output[id] = EmptyResult

\* A call with an unrecognized id and an id that was looked up has returned.
C6_Witness ==
    /\ pc = "done"
    /\ XYZ1 \in Range(sra_ids)
    /\ XYZ1 \notin DOMAIN KNOWN_MAPPINGS
    /\ output[XYZ1] = EmptyResult
    /\ \E id \in Range(sra_ids) : dispatched[id] > 0

\* C7 as stated: an id whose resolution got only well-formed responses and
\* came back all-empty is not put into the failure set, also when a retry
\* round remains.
C7_NotFoundIsTerminal ==
    [][\A sid \in DOMAIN workers :
          (/\ Classifies
           /\ pib.retry_count < config.max_retries
           /\ workers[sid].class = "wellformed"
           /\ workers[sid].result = EmptyResult) =>
              sid \notin pib'.batch_failed_ids]_vars

\* C8 as stated: an id whose resolution met a transient failure while a
\* retry round remains is put into the failure set.
C8_TransientIsRetried ==
    [][\A sid \in DOMAIN workers :
          (/\ Classifies
           /\ pib.retry_count < config.max_retries
           /\ workers[sid].class \in {"allfail", "mixed"}) =>
              sid \in pib'.batch_failed_ids]_vars

\* C9: process_in_batches runs at most max_retries + 1 rounds, and no id is
\* dispatched more than max_retries + 1 times in a call (once, when
\* max_retries = 0).
C9_DispatchBound ==
    /\ pib.retry_count <= config.max_retries + 1
    /\ \A id \in Ids : dispatched[id] <= config.max_retries + 1

\* Without retries, an id that failed was dispatched once and is returned empty.
C9_Witness ==
    /\ pc = "done"
    /\ config.max_retries = 0
    /\ SRP1 \in Range(sra_ids)
    /\ dispatched[SRP1] = 1
    /\ output[SRP1] = EmptyResult

\* C10: a second call with the same input, against known mappings and a
\* cache file that cover what the first call returned, returns what the
\* first call returned; when both calls wrote the cache file, the second
\* write leaves the file's content as the first left it.
C10_Idempotent ==
    (run > 1 /\ pc = "done") =>
        /\ output = prev.output
        /\ (prev.saved = "ok" /\ saved = "ok") => file = prev.file

\* The second call returns a record the first call got from the network.
C10_Witness ==
    /\ run = 2
    /\ pc = "done"
    /\ saved = "ok"
    /\ ERPX \in Range(sra_ids)
    /\ output[ERPX] # EmptyResult
    /\ file.data[ERPX] = output[ERPX]

\* The ids of the input that neither the known mappings nor the loaded
\* cache resolve (cache is the loaded cache until the call merges into it).
Unresolved ==
    {id \in Range(sra_ids) :
        id \notin DOMAIN KNOWN_MAPPINGS /\ ~(config.cache_file /\ id \in DOMAIN cache)}

\* The ids process_in_batches was called with.
PibIds == Range(IF pib.func = "srp" THEN srp_ids ELSE erp_ids)

\* C11 as stated: the initial round dispatches as many ids as there are
\* unique input ids that the cache and the known mappings do not resolve
\* (without retries, every dispatch of the call is one of the initial round).
C11_DispatchesAllUnresolved ==
    (pc = "save" /\ config.max_retries = 0) =>
        Cardinality({id \in Ids : dispatched[id] > 0}) = Cardinality(Unresolved)

\* C11, amended: the initial round of a namespace dispatches exactly the
\* unique unresolved input ids of that namespace's prefix, each once; no id
\* is dispatched twice within a round; an id of an unrecognized prefix is
\* not dispatched although it is unresolved.
C11_DedupDispatch ==
    /\ \A id \in Ids : id \notin Range(srp_ids) \cup Range(erp_ids) => dispatched[id] = 0
    /\ pib.func # "none" =>
          /\ \A id \in PibIds :
                dispatched[id] <= pib.retry_count + (IF pib.pos = "while" THEN 0 ELSE 1)
          /\ (pib.pos = "while" /\ pib.retry_count = 1) =>
                /\ PibIds = {id \in Unresolved :
                                StartsWith(id, IF pib.func = "srp" THEN SRP ELSE ERP)}
                /\ \A id \in PibIds : dispatched[id] = 1

\* The initial round of a call whose input repeats an id has dispatched it once.
C11_Witness ==
    /\ pib.pos = "while"
    /\ pib.retry_count = 1
    /\ Len(sra_ids) = 2
    /\ sra_ids[1] = sra_ids[2]
    /\ dispatched[sra_ids[1]] = 1

\* C12 as stated (a retry_delay sleep granted as a full delay): once a batch
\* of the call has completed, the scheduler has slept before the workers of
\* the next batch are submitted.
C12_SleptBeforeEveryBatch ==
    (pib.pos = "pool" /\ pause.batch_done) => pause.sleeps # <<>>

\* C12, amended: the scheduler sleeps delay_between_batches exactly between
\* two consecutive batches of one round; before the first batch of a retry
\* round it has slept retry_delay instead, and before the first batch of a
\* namespace (also of the ERP ids after the SRP batches) it has not slept.
C12_SleepBetweenBatches ==
    pib.pos = "pool" =>
        pause.sleeps = IF pib.i > 0 THEN <<"delay_between_batches">>
                       ELSE IF pib.retry_count > 0 THEN <<"retry_delay">>
                       ELSE <<>>

\* The second batch of a round is in the pool, after the sleep.
C12_Witness ==
    /\ pib.pos = "pool"
    /\ pib.i > 0
    /\ pause.batch_done
    /\ pause.sleeps = <<"delay_between_batches">>
    /\ Running # {}

\* C13: batches are processed strictly one after the other: the scheduler
\* leaves a batch (to sleep, to submit the next batch or to end the round)
\* only when every resolution of that batch has finished, and a resolution
\* only starts for an id of the batch that is being processed.
C13_BatchesNeverOverlap ==
    [][/\ (pib.pos = "pool" /\ pib'.pos # "pool") =>
            \A sid \in Range(pib.batch) : workers[sid].st = "done"
       /\ \A sid \in Ids :
            (sid \in DOMAIN workers' /\ workers'[sid].st = "running"
               /\ ~(sid \in DOMAIN workers /\ workers[sid].st = "running")) =>
            (pib.pos = "pool" /\ sid \in Range(pib.batch) /\ pib' = pib)]_vars

\* A resolution of the second batch of a round is running.
C13_Witness ==
    /\ pib.pos = "pool"
    /\ pib.retry_count = 0
    /\ pib.i = config.batch_size
    /\ \E sid \in Range(pib.batch) : workers[sid].st = "running"

\* C14: at every moment at most max_workers resolutions are executing, and
\* each of them is a resolution of an id of the one batch that is being
\* processed.
C14_BoundedPool ==
    /\ Cardinality({sid \in DOMAIN workers : workers[sid].st = "running"})
          <= config.max_workers
    /\ \A sid \in DOMAIN workers :
          workers[sid].st = "running" => pib.pos = "pool" /\ sid \in Range(pib.batch)

\* A batch of two ids on a pool of one thread: one resolution is executing
\* and the other one is queued.
C14_Witness ==
    /\ config.max_workers = 1
    /\ Len(pib.batch) = 2
    /\ \E a, b \in Range(pib.batch) :
          workers[a].st = "running" /\ workers[b].st = "pending"

\* C15: two requests to one host are never issued less than the host's
\* minimum interval apart, whatever the interleaving of the pool threads.
C15_MinInterval ==
    \A i, j \in DOMAIN issued :
        i < j => issued[j].at - issued[i].at >= min_wait_time

\* C16: within one call the values passed to progress_callback never go
\* down.
C16_ProgressMonotone == [][run' = run => reported' >= reported]_vars

\* C17: with a cache file that is missing or whose content is corrupt,
\* convert_sra_ids does not raise.
C17_CorruptCacheNoRaise ==
    (run = 1 /\ file.state \in {"missing", "corrupt", "list"}) => pc # "raised"

\* C18: the cache only grows.  When a call has loaded the cache file and
\* its write succeeds, the file written holds every key of the file loaded,
\* holds every id of this call's results with the record of the results
\* (also where the file loaded had another record for it), and holds the
\* record loaded for every other key.
C18_CacheOnlyGrows ==
    [][(pc = "save" /\ config.cache_file /\ file.state = "valid" /\ saved' = "ok") =>
         /\ file'.state = "valid"
         /\ DOMAIN file'.data = DOMAIN file.data \cup DOMAIN results
         /\ \A id \in DOMAIN results : file'.data[id] = results[id]
         /\ \A id \in DOMAIN file.data \ DOMAIN results :
               file'.data[id] = file.data[id]]_vars

\* The first call has written the file: the record loaded for ERP9 is
\* replaced by the one of the known mappings, the record loaded for SRP1,
\* which was not asked for, is kept.
C18_Witness ==
    /\ run = 1
    /\ pc = "done"
    /\ saved = "ok"
    /\ ERP9 \in Range(sra_ids) \cap DOMAIN KNOWN_MAPPINGS
    /\ SRP1 \notin Range(sra_ids)
    /\ file.data[ERP9] = KNOWN_MAPPINGS[ERP9]
    /\ file.data[ERP9] # SeededCache[ERP9]
    /\ SRP1 \in DOMAIN file.data
    /\ file.data[SRP1] = SeededCache[SRP1]

\* C19: in a call with a cache file, the file is read at most once and only
\* before any resolution is dispatched; it is written exactly once, when the
\* last batch of the last namespace and the last retry round are over and
\* no worker is running.
C19_ReadOnceWriteOnce ==
    [][run' = run =>
         /\ io'.reads # io.reads =>
               io.reads = 0 /\ \A id \in Ids : dispatched[id] = 0
         /\ io'.writes # io.writes =>
               /\ io.writes = 0
               /\ pc = "save"
               /\ pib = NoPib
               /\ \A sid \in DOMAIN workers : workers[sid].st # "running"
         /\ (config.cache_file /\ pc = "save" /\ pc' # "save") => io'.writes = 1]_vars

\* C20: after a call with a cache file (whose write succeeded), every input
\* id whose final result is the all-empty result is in the persisted cache
\* with that empty record.
C20_EmptyResultsCached ==
    (pc = "done" /\ config.cache_file /\ saved = "ok") =>
        \A id \in Range(sra_ids) :
            output[id] = EmptyResult =>
                id \in DOMAIN file.data /\ file.data[id] = EmptyResult

\* C20, as the code has it: the same for the ids of the SRP and ERP
\* namespaces.  An id of another prefix gets its empty result only in the
\* value returned and is not written to the cache.
C20_EmptySrpErpResultsCached ==
    (pc = "done" /\ config.cache_file /\ saved = "ok") =>
        \A id \in Range(sra_ids) :
            (output[id] = EmptyResult /\ (StartsWith(id, SRP) \/ StartsWith(id, ERP))) =>
                id \in DOMAIN file.data /\ file.data[id] = EmptyResult

\* An id was looked up in this call, ended with the all-empty result, and the
\* cache file written holds the empty record for it.
C20_Witness ==
    /\ pc = "done"
    /\ saved = "ok"
    /\ \E id \in Range(sra_ids) :
          /\ dispatched[id] > 0
          /\ output[id] = EmptyResult
          /\ id \in DOMAIN file.data
          /\ file.data[id] = EmptyResult

\* C21: a failure while one id is resolved aborts neither the batch nor the
\* call.  When a batch is classified, every id of it gets its own outcome
\* (its result is recorded, or the id goes to the failure set when its
\* resolution gave nothing) and the scheduler goes on with the next batch
\* or the end of the round; when process_in_batches returns, the ids still
\* in the failure set get the all-empty record and the caller goes on with
\* the next namespace or the end of the call.
C21_FailureIsolated ==
    [][/\ Classifies =>
            /\ \A sid \in Range(pib.batch) :
                  IF Truthy(workers[sid].result.bioproject_id)
                       \/ Truthy(workers[sid].result.geo_id)
                  THEN /\ sid \in DOMAIN pib'.results
                       /\ pib'.results[sid] = workers[sid].result
                       /\ sid \notin pib'.batch_failed_ids
                  ELSE sid \in pib'.batch_failed_ids
            /\ pc' = pc
            /\ pib'.pos = IF pib.i + config.batch_size < Len(pib.current_ids)
                           THEN "for" ELSE "while"
       /\ (pib.pos = "while" /\ pib'.pos = "idle") =>
            /\ \A sid \in pib.failed_ids : results'[sid] = EmptyResult
            /\ \A sid \in DOMAIN pib.results \ pib.failed_ids :
                  results'[sid] = pib.results[sid]
            /\ pc' = IF pib.func = "srp" THEN "erp" ELSE "save"]_vars

\* A batch of two ERP ids has been classified: every request for ERPX
\* failed and it is in the failure set, ERP9 has its result.
C21_Witness ==
    /\ pib.func = "erp"
    /\ pib.pos = "while"
    /\ pib.retry_count = 1
    /\ config.batch_size = 2
    /\ Len(pib.current_ids) = 2
    /\ ERPX \in pib.failed_ids
    /\ ERPX \in allFailed
    /\ ERP9 \in DOMAIN pib.results
    /\ ERP9 \notin pib.failed_ids

\* C22: get_study_id raises ValueError, with no request made, when its
\* argument is not a string or starts with neither SRX nor ERX; an ERX
\* accession goes to the ENA lookup and an SRX accession to the NCBI lookup.
C22_StudyIdDispatch ==
    (call.fn = "get_study_id" /\ call.pc # "call") =>
        LET a == call.arg
            erx == a.type = "str" /\ Len(a.val) >= 3 /\ SubSeq(a.val, 1, 3) = ERX
            srx == a.type = "str" /\ Len(a.val) >= 3 /\ SubSeq(a.val, 1, 3) = SRX
        IN /\ ~(erx \/ srx) =>
                call.pc = "raised" /\ call.route = "ValueError" /\ call.network = 0
           /\ erx => call.route = "get_ena_study_id"
           /\ srx => call.route = "get_ncbi_study_id"
           /\ call.pc = "get_ena_study_id" => erx
           /\ call.pc = "get_ncbi_study_id" => srx

\* get_study_id has raised for a string that starts with SR but not with
\* SRX.
C22_Witness ==
    /\ call.fn = "get_study_id"
    /\ call.pc = "raised"
    /\ call.route = "ValueError"
    /\ call.network = 0
    /\ call.arg = PyStr(<<"S", "R", "1", "X">>)

\* C23: a lookup method that gets a malformed body or an error status is the
\* only thing that fails: the chain goes on to its later methods, in
\* get_gse_from_srp (candidate summaries, then the full-record fetch) as in
\* the ERP chains. So a lookup never ends on a failed method request that
\* is not the last request of its chain.
C23_MalformedMethodIsLocal ==
    (/\ lookup.pc = "done"
     /\ lookup.fn \in {"get_gse_from_srp", "get_arrayexpress_from_erp",
                       "get_bioproject_from_erp"}) =>
        LET chain == MethodChain(lookup)
            k == Issued(lookup)
        IN (k >= FirstMethod(lookup) /\ IsTransient(chain[k])) => k = Len(chain)

\* The ERP chains alone do go on after a failed method.
C23_ErpChainsGoOn ==
    (/\ lookup.pc = "done"
     /\ lookup.fn \in {"get_arrayexpress_from_erp", "get_bioproject_from_erp"}) =>
        LET k == Issued(lookup)
        IN (k >= 1 /\ IsTransient(lookup.env[k])) => k = Len(lookup.env)

\* C24: get_arrayexpress_from_erp runs its seven methods in the order of the
\* source (BioStudies search by ERP id and by BioProject id, XREF_LINK by ERP
\* id and by BioProject id, portal links, EBI search, listing page): a method
\* is issued only when every method before it found nothing, and the id
\* returned is the one of the first method that found one.
C24_ArrayexpressInOrder ==
    (/\ lookup.pc = "done"
     /\ lookup.fn = "get_arrayexpress_from_erp"
     /\ Truthy(lookup.bp.ret)) =>
        LET k == Issued(lookup)
            found(j) == ae_method(j, lookup.env[j])
        IN /\ k \in 1..AeMethods
           /\ \A j \in 1..(k - 1) : ~found(j).returned
           /\ IF found(k).returned
              THEN lookup.out.ret = found(k).value
              ELSE k = AeMethods /\ lookup.out.ret = None

\* The first method timed out, the second found nothing, the third found
\* the accession; the fifth would have found one too and was never issued.
C24_Witness ==
    /\ lookup.pc = "done"
    /\ lookup.fn = "get_arrayexpress_from_erp"
    /\ Truthy(lookup.bp.ret)
    /\ IsTransient(lookup.env[1])
    /\ lookup.env[2] = Ok(<<>>)
    /\ ae_method(3, lookup.env[3]).returned
    /\ ae_method(5, lookup.env[5]).returned
    /\ lookup.out.ret = EMTAB1
    /\ Issued(lookup) = 3

\* C25: get_bioproject_from_erp returns the id derived from the digits of
\* the ERP id only when none of its three network methods produced a PRJEB
\* id; a PRJEB id produced by a method is returned at once, no later method
\* being called; an id without digits and without a network result gives
\* nothing. (The archives of the model never answer PRJEB9, so PRJEB9 is
\* the derived value.)
C25_DerivedOnlyAsLastResort ==
    (lookup.pc = "done" /\ lookup.fn = "get_bioproject_from_erp") =>
        LET m(j) == IF j = 2 THEN ena_browser_xml_method(lookup.env[2])
                    ELSE ena_portal_json_method(lookup.env[j])
            isPrjeb(r) == r.returned /\ Truthy(r.value) /\ StartsWith(r.value, PRJEB)
            k == lookup.out.calls
        IN /\ k \in 1..3
           /\ \A j \in 1..k : isPrjeb(m(j)) => (lookup.out.ret = m(j).value /\ k = j)
           /\ lookup.out.ret = PRJEB9 =>
                 (k = 3 /\ \A j \in 1..3 : ~isPrjeb(m(j)))
           /\ (lookup.id = ERPX /\ \A j \in 1..3 : ~m(j).returned) =>
                 lookup.out.ret = None

\* ERP9 with a malformed file report, a browser document without a project
\* and an error status from the portal: the derived PRJEB9 is returned.
C25_Witness ==
    /\ lookup.pc = "done"
    /\ lookup.fn = "get_bioproject_from_erp"
    /\ lookup.id = ERP9
    /\ lookup.env = <<Malformed, Ok(<<>>), Http500>>
    /\ lookup.out = Ret(PRJEB9, 2, 3)

\* C26: get_gse_from_srp returns the accession of the first candidate
\* summary, in the order of the search result, whose accession starts with
\* GSE, and issues the full-record fetch only if no candidate summary had a
\* GSE accession.
C26_FirstGseSummary ==
    (/\ lookup.pc = "done"
     /\ lookup.fn = "get_gse_from_srp"
     /\ Truthy(lookup.bp.ret)
     /\ Issued(lookup) >= FirstMethod(lookup)) =>
        LET chain == MethodChain(lookup)
            first == FirstMethod(lookup)
            summaries == first..(Len(chain) - 1)
            gse == {i \in summaries : ~IsTransient(chain[i]) /\ IsGse(chain[i].data)}
        IN /\ gse # {} =>
                /\ lookup.out.ret = chain[SetMin(gse)].data
                /\ Issued(lookup) = SetMin(gse)
           /\ Issued(lookup) = Len(chain) => gse = {}

\* C27: _retry_response sleeps 2^i seconds before its request number i
\* (i = 0 .. max_retries - 1), returns on the first valid response, and when
\* the cap is reached gives up that one request attempt only: the program
\* goes on.
C27_BackoffThenAbandonAttempt ==
    /\ Len(retry.sleeps) <= retry.max_retries
    /\ \A j \in 1..Len(retry.sleeps) : retry.sleeps[j] = Pow2(j - 1)
    /\ \A j \in 1..Len(retry.log) :
          retry.log[j] = "valid" => (j = Len(retry.log) /\ retry.pc \notin {"for", "get"})
    /\ retry.process # "exited"

\* The backoff and the return on the first valid response, without the
\* claim about what happens at the cap.
C27_Backoff ==
    /\ Len(retry.sleeps) <= retry.max_retries
    /\ \A j \in 1..Len(retry.sleeps) : retry.sleeps[j] = Pow2(j - 1)
    /\ \A j \in 1..Len(retry.log) :
          retry.log[j] = "valid" => (j = Len(retry.log) /\ retry.pc \notin {"for", "get"})
    /\ Len(retry.log) \in {Len(retry.sleeps), Len(retry.sleeps) - 1}

\* C28: the delay_between_batches sleep happens exactly once between two
\* consecutive batches of a round and not after the last batch of a round,
\* a round of a single batch included: while a later batch of a round is
\* awaited or running the one sleep since the previous batch is that delay,
\* and when a round has ended nothing has been slept since its last batch.
C28_DelayOnlyBetweenBatches ==
    /\ (pib.pos \in {"for", "pool"} /\ pib.i > 0) =>
          pause.sleeps = <<"delay_between_batches">>
    /\ (pib.pos = "while" /\ pause.batch_done) => pause.sleeps = <<>>
    /\ (\E k \in 1..Len(pause.sleeps) : pause.sleeps[k] = "delay_between_batches") =>
          (pib.pos \in {"for", "pool"} /\ pib.i > 0)

\* A round of two batches of one id has ended: the second batch was its
\* last and no sleep followed it.
C28_Witness ==
    /\ pib.pos = "while"
    /\ pause.batch_done
    /\ config.batch_size = 1
    /\ Len(pib.current_ids) = 2
    /\ pib.i = 1
    /\ pause.sleeps = <<>>

\* C29: every retry round is preceded by exactly one retry_delay sleep and
\* the initial round by none; there is no retry_delay sleep without a
\* failure set to retry. While the first batch of a round is awaited or
\* running, the sleeps since the previous batch are one retry_delay in a
\* retry round and none in the initial round; a retry_delay sleep is found
\* nowhere else, and a round only runs on a non-empty failure set.
C29_RetryDelayBeforeRetryRound ==
    /\ (pib.pos \in {"for", "pool"} /\ pib.i = 0) =>
          /\ pause.sleeps = IF pib.retry_count > 0 THEN <<"retry_delay">> ELSE <<>>
          /\ pib.current_ids # <<>>
          /\ Range(pib.current_ids) = pib.failed_ids
    /\ (\E k \in 1..Len(pause.sleeps) : pause.sleeps[k] = "retry_delay") =>
          /\ pib.pos \in {"for", "pool"}
          /\ pib.i = 0
          /\ pib.retry_count > 0
          /\ pib.failed_ids # {}

\* The second retry round has started: since the last batch of the first
\* retry round the scheduler has slept retry_delay once.
C29_Witness ==
    /\ pib.pos = "pool"
    /\ pib.i = 0
    /\ pib.retry_count = 2
    /\ pause.sleeps = <<"retry_delay">>
    /\ pib.failed_ids # {}

\* C30 as stated: the progress callback is invoked once after every batch
\* and once after the known-mapping / cache short-circuit.
C30_InvokedAfterEveryBatch ==
    [][/\ (pib.pos = "pool" /\ pib'.pos # "pool") => invoked' = invoked + 1
       /\ (pc = "start" /\ pc' # "start") => invoked' = invoked + 1]_vars

\* C30, amended: the progress callback is invoked once after a batch in
\* which at least one id was resolved and not after a batch whose ids all
\* failed; once after the short-circuit when it resolved at least one id
\* and not when it resolved none; and at no other step.
C30_InvokedWhenProgress ==
    [][/\ (pib.pos = "pool" /\ pib'.pos # "pool") =>
            invoked' = invoked
                       + (IF \E sid \in Range(pib.batch) : IsSuccess(workers[sid].result)
                          THEN 1 ELSE 0)
       /\ (pc = "start" /\ pc' # "start") =>
            invoked' = invoked + (IF DOMAIN results' # {} THEN 1 ELSE 0)
       /\ (/\ ~(pib.pos = "pool" /\ pib'.pos # "pool")
           /\ ~(pc = "start" /\ pc' # "start")
           /\ run' = run) => invoked' = invoked]_vars

\* Two batches of one ERP id each have completed, nothing was known or
\* cached: one id was resolved, the other failed, and the callback has been
\* invoked once.
C30_Witness ==
    /\ pib.func = "erp"
    /\ pib.pos = "while"
    /\ pib.retry_count = 1
    /\ config.batch_size = 1
    /\ Len(pib.current_ids) = 2
    /\ Cardinality(pib.failed_ids) = 1
    /\ results = EmptyMap
    /\ invoked = 1

\* C31: the failure set carried between rounds never grows, and success is
\* final. A round works on exactly the failure set it was handed; the set a
\* round hands on is a subset of the ids it attempted; an id that has a
\* result in process_in_batches is not in a later work list, is not
\* dispatched again, keeps that result, and has it returned to the caller.
C31_FailureSetShrinks ==
    [][/\ (pib.pos = "while" /\ pib'.pos = "for") =>
            /\ Range(pib'.current_ids) = pib.failed_ids
            /\ Len(pib'.current_ids) = Cardinality(pib.failed_ids)
       /\ (pib.pos = "pool" /\ pib'.pos = "while") =>
            pib'.failed_ids \subseteq Range(pib.current_ids)
       /\ \A sid \in DOMAIN pib.results :
            /\ IsSuccess(pib.results[sid])
            /\ dispatched'[sid] = dispatched[sid] \/ run' # run
            /\ pib'.pos # "idle" =>
                  /\ pib'.results[sid] = pib.results[sid]
                  /\ sid \notin pib'.batch_failed_ids
                  /\ pib'.pos = "while" => sid \notin pib'.failed_ids
                  /\ pib'.pos = "for" /\ pib.pos = "while" =>
                        sid \notin Range(pib'.current_ids)
            /\ (pib.pos = "while" /\ pib'.pos = "idle") =>
                  results'[sid] = pib.results[sid]]_vars

\* The second retry round works on one id while another id of the call
\* already has its result.
C31_Witness ==
    /\ pib.pos = "pool"
    /\ pib.retry_count = 2
    /\ Len(pib.current_ids) = 1
    /\ DOMAIN pib.results # {}
    /\ \E sid \in Range(pib.current_ids) : dispatched[sid] = 3

\* C32: for a finite input list and a finite max_retries every call of
\* convert_sra_ids eventually returns, each HTTP call being bounded by its
\* own timeout.
C32_EventuallyReturns == (pc = "start") ~> (pc = "done")

\* C33: a result with exactly one non-empty field is a success. When its
\* batch is classified the id is stored with that record and is not in the
\* failure set; from then on it is not dispatched again and keeps the
\* record; the record is what convert_sra_ids returns for the id and, when
\* the cache file is written, what the file holds for it.
C33_PartialIsSuccess ==
    [][LET Partial(r) == Truthy(r.bioproject_id) # Truthy(r.geo_id)
       IN /\ (pib.pos = "pool" /\ pib'.pos # "pool") =>
               \A sid \in Range(pib.batch) :
                  Partial(workers[sid].result) =>
                     /\ sid \in DOMAIN pib'.results
                     /\ pib'.results[sid] = workers[sid].result
                     /\ sid \notin pib'.batch_failed_ids
                     /\ pib'.pos = "while" => sid \notin pib'.failed_ids
          /\ \A sid \in DOMAIN pib.results :
               Partial(pib.results[sid]) =>
                  /\ dispatched'[sid] = dispatched[sid] \/ run' # run
                  /\ pib'.pos # "idle" => pib'.results[sid] = pib.results[sid]
                  /\ pib'.pos = "idle" => results'[sid] = pib.results[sid]
          /\ (pc = "save" /\ pc' = "done") =>
               \A sid \in DOMAIN results :
                  Partial(results[sid]) =>
                     /\ output'[sid] = results[sid]
                     /\ saved' = "ok" =>
                           (sid \in DOMAIN file'.data /\ file'.data[sid] = results[sid])]_vars

\* A call has returned and written the cache file: ERP9 was looked up once
\* and has a BioProject id without a GEO id, in the return value and in the
\* file.
C33_Witness ==
    /\ pc = "done"
    /\ saved = "ok"
    /\ dispatched[ERP9] = 1
    /\ output[ERP9] = [bioproject_id |-> PRJEB9, geo_id |-> <<>>]
    /\ file.data[ERP9] = output[ERP9]

\* C34: batch_srx_to_gsm asks for each distinct SRX of its input in exactly
\* one batch (never in two, and in one by the time it returns), and when
\* some batch had a match the table it returns has one row per element of
\* srx_list, in the order of srx_list and with its duplicates, the alias
\* being the GSM accession of a matched SRX and None for the others.
C34_OneRowPerInput ==
    call.fn = "batch_srx_to_gsm" =>
        LET asking(srx) == {k \in 1..Len(call.queried) : srx \in Range(call.queried[k])}
        IN /\ \A k \in 1..Len(call.queried) :
                 Range(call.queried[k]) \subseteq Range(call.srx_list)
           /\ \A srx \in SrxIds : Cardinality(asking(srx)) <= 1
           /\ call.pc = "returned" =>
                 /\ \A srx \in Range(call.srx_list) : Cardinality(asking(srx)) = 1
                 /\ call.matched # {} =>
                       /\ Len(call.table) = Len(call.srx_list)
                       /\ \A k \in 1..Len(call.srx_list) :
                             /\ call.table[k].experiment_accession = call.srx_list[k]
                             /\ call.table[k].experiment_alias =
                                   IF call.srx_list[k] \in call.matched
                                   THEN GsmOf(call.srx_list[k]) ELSE None

\* The list SRX2, SRX1, SRX2 in batches of one: SRX2 had a match, SRX1 had
\* none, and the table has three rows.
C34_Witness ==
    /\ call.fn = "batch_srx_to_gsm"
    /\ call.pc = "returned"
    /\ call.srx_list = <<"SRX2", "SRX1", "SRX2">>
    /\ call.batch_size = 1
    /\ call.matched = {"SRX2"}
    /\ Len(call.table) = 3
    /\ call.table[2].experiment_alias = None
    /\ call.table[3].experiment_alias = GsmOf("SRX2")

\* C35: get_ena_study_id asks the browser API at most three times and the
\* portal API at most three times; the portal is asked only once the
\* browser loop is over without a study id (a document without a study
\* reference, or three request errors); and the function is never left
\* without a next request: it goes on until it has returned or raised
\* ValueError.
C35_EnaAttemptsBounded ==
    call.route = "get_ena_study_id" =>
        LET at(endpoint) == {k \in 1..Len(call.trace) : call.trace[k].endpoint = endpoint}
            browser == at("browser")
            portal == at("portal")
        IN /\ Cardinality(browser) <= 3
           /\ Cardinality(portal) <= 3
           /\ \A b \in browser, q \in portal : b < q
           /\ portal # {} =>
                 /\ \A b \in browser : call.trace[b].resp \in {"error", "nomatch"}
                 /\ \/ call.trace[Cardinality(browser)].resp = "nomatch"
                    \/ Cardinality(browser) = 3
           /\ call.pc \in {"get_ena_study_id", "portal", "returned", "raised"}
           /\ call.pc \in {"get_ena_study_id", "portal"} => call.attempt < 3
           /\ call.pc = "raised" =>
                 (portal # {} /\ call.trace[Len(call.trace)].resp \in {"error", "empty"})
           /\ call.network = Len(call.trace)

\* Three request errors at the browser API, two at the portal API and then
\* a report: the study id is returned after six requests.
C35_Witness ==
    /\ call.route = "get_ena_study_id"
    /\ call.pc = "returned"
    /\ Len(call.trace) = 6
    /\ \A k \in 1..3 : call.trace[k] = [endpoint |-> "browser", resp |-> "error"]
    /\ \A k \in 4..5 : call.trace[k] = [endpoint |-> "portal", resp |-> "error"]
    /\ call.trace[6] = [endpoint |-> "portal", resp |-> "study"]

\* C36: when the batched lookup of a batch raises, every id of that batch
\* is looked up individually and the later batches are still attempted; the
\* dictionary convert_srp_to_gse returns has an entry for every input id, and
\* the entry is the id itself exactly when the last lookup of that id found
\* no GSE or failed.
C36_FallbackAndTotal ==
    call.fn = "convert_srp_to_gse" /\ call.pc = "returned" =>
        LET n == Len(call.srp_ids)
            starts == {i \in 0..n : i < n /\ i % call.batch_size = 0}
        IN /\ Range(call.batches) = starts
           /\ Len(call.batches) = Cardinality(starts)
           /\ \A i \in call.raised :
                 \A k \in (i + 1)..Min(i + call.batch_size, n) :
                    <<i, call.srp_ids[k]>> \in call.individual
           /\ DOMAIN call.results = Range(call.srp_ids)
           /\ \A srp_id \in Range(call.srp_ids) :
                 /\ call.last[srp_id] # "unasked"
                 /\ (call.results[srp_id] = srp_id) <=> (call.last[srp_id] \in {"none", "error"})

\* A call over two batches returned: the first batch raised and one of its
\* ids failed again on its own, the second batch was looked up in one go.
C36_Witness ==
    /\ call.fn = "convert_srp_to_gse"
    /\ call.pc = "returned"
    /\ call.batch_size = 2
    /\ Len(call.srp_ids) = 3
    /\ call.raised = {0}
    /\ \E srp_id \in Range(call.srp_ids) : call.last[srp_id] = "error"
    /\ \E srp_id \in Range(call.srp_ids) : call.last[srp_id] = "found"
    /\ call.batches = <<0, 2>>

\* C37: when the write of the cache file fails (open or json.dump raises),
\* convert_sra_ids does not raise and returns what it returns when the write
\* succeeds: the entry of `results`, or the empty result, for every input id.
C37_WriteFailureIsSilent ==
    [][pc = "save" /\ saved' \in {"ok", "open_failed", "dump_failed"} =>
          /\ pc' = "done"
          /\ results' = results
          /\ output' = [id \in Range(sra_ids) |->
                           IF id \in DOMAIN results THEN results[id] ELSE EmptyResult]]_vars

\* A call that resolved an id has returned it although json.dump failed
\* and left a truncated file behind.
C37_Witness ==
    /\ pc = "done"
    /\ saved = "dump_failed"
    /\ file.state = "corrupt"
    /\ \E id \in DOMAIN output : Truthy(output[id].bioproject_id) /\ dispatched[id] > 0

\* C38: get_gse_from_srp issues no GEO-dataset search and returns no GSE id
\* when no BioProject id was obtained, so an SRP id that process_srp_id
\* resolved without a BioProject id has the all-empty result.
C38_NoBioprojectNoGse ==
    /\ lookup.fn = "get_gse_from_srp" /\ lookup.pc = "done" /\ ~Truthy(lookup.bp.ret) =>
          lookup.out.ret = None /\ Issued(lookup) = 0
    /\ \A id \in DOMAIN results :
          StartsWith(id, SRP) /\ dispatched[id] > 0 /\ ~Truthy(results[id].bioproject_id) =>
              results[id] = EmptyResult

\* The first half alone: inside get_gse_from_srp (lines 514-519) a nested
\* BioProject lookup that hands back nothing ends the function before any
\* gds request.
C38_NoSearchWithoutBioproject ==
    lookup.fn = "get_gse_from_srp" /\ lookup.pc = "done" /\ ~Truthy(lookup.bp.ret) =>
        lookup.out.ret = None /\ Issued(lookup) = 0

\* C39: the partitioned work lists and the work list of every round hold
\* the ids in the order of their first occurrence in sra_ids, so that the
\* batches cut from them are determined by the input list.
C39_FirstOccurrenceOrder ==
    LET first(id) == SetMin({k \in 1..Len(sra_ids) : sra_ids[k] = id})
        ordered(l) == \A i, j \in 1..Len(l) : i < j => first(l[i]) < first(l[j])
    IN /\ ordered(srp_ids)
       /\ ordered(erp_ids)
       /\ ordered(other_ids)
       /\ ordered(pib.current_ids)

====
